---- MODULE Spec2Model ----
(***************************************************************************)
(* Model of the cloud-billing clients.                                     *)
(*                                                                         *)
(*   SpecAlibaba : AlibabaCloudClient, the two paginated fetches           *)
(*                 (cloud_billing/alibaba_cloud/client.py)                 *)
(*   SpecAzure   : AzureCloudClient, the token cache, report start, the    *)
(*                 single poll, the blocking poll, the download and the    *)
(*                 CSV generator (cloud_billing/azure_cloud/client.py)     *)
(*                                                                         *)
(* Python values are tagged records, so that None, strings, lists and      *)
(* dicts can be compared with each other: None is [t |-> "None"], a str is *)
(* [t |-> "str", s |-> <<pieces>>].  A str read character by character     *)
(* (billing cycle, NextToken, response text) has one character per piece;  *)
(* a formatted message has one piece per literal or interpolated value.    *)
(***************************************************************************)
EXTENDS Integers, Sequences, FiniteSets, TLC

\* Bounds of the model (not program constants).
MaxPages == 3
MaxItems == 2

\* client.py:23
DEFAULT_MAX_PAGE_SIZE == 300

VARIABLES
    op,             \* the client method being executed / last executed
    pc,             \* "idle" | a position inside op | "returned" | "raised"
    billing_cycle,  \* argument of the fetch in progress
    billing_date,   \* argument of the fetch in progress (None when not given)
    next_token,     \* pagination.next_token / next_token of the fetch loop
    result,         \* result / items: the accumulator of the fetch loop
    requests,       \* every CommonRequest handed to do_action_with_exception
    pages,          \* every page that validated, as the provider sent it
    page_response,  \* response: the payload the last request of the fetch brought
    ret,            \* value returned to the caller (None until returned)
    exc,            \* exception raised to the caller (None unless raised)
    _current_token, \* AzureCloudClient._current_token, the cached bearer token
    token,          \* the token argument of the Azure call in progress
    url,            \* its location_url / csv_url argument
    max_retries,    \* its max_retries argument
    retry_count,    \* retry_count of get_ri_csv_url
    http,           \* the HTTP requests the call has issued, in order
    slept,          \* seconds the call has spent in time.sleep
    response,       \* the last HTTP response (or network exception) it received
    inner,          \* (csv_url, error) get_ri_csv_url returned to get_ri_csv_as_json
    reader,         \* rows of the csv.DictReader not yet consumed
    yielded,        \* the tuples get_ri_csv_as_json has yielded, in order
    earlier,        \* a caller's note of an earlier poll: its response and result
    printed,        \* the lines the call in progress has written to standard output
    arg             \* the argument of the pure function call in progress

alibabaVars == <<billing_cycle, billing_date, next_token, result, requests, pages,
                 page_response>>

azureVars == <<_current_token, token, url, max_retries, retry_count, http,
               slept, response, inner, reader, yielded, earlier, printed>>

pureVars == <<arg>>

vars == <<op, pc, ret, exc, alibabaVars, azureVars, pureVars>>

----------------------------------------------------------------------------
\* Python values

None == [t |-> "None"]

Str(s) == [t |-> "str", s |-> s]

List(xs) == [t |-> "list", items |-> xs]

Exception(cls, msg) == [t |-> "exc", cls |-> cls, msg |-> msg]

\* str.strip() / str.isspace(): the whitespace characters of the model's alphabet
Whitespace == {" ", "\t", "\n"}

Digits == {"0", "1", "2", "3", "4", "5", "6", "7", "8", "9"}

RECURSIVE LStrip(_)
LStrip(s) == IF s # <<>> /\ Head(s) \in Whitespace THEN LStrip(Tail(s)) ELSE s

RECURSIVE RStrip(_)
RStrip(s) ==
    IF s # <<>> /\ s[Len(s)] \in Whitespace
    THEN RStrip(SubSeq(s, 1, Len(s) - 1))
    ELSE s

\* str.strip()
Strip(s) == RStrip(LStrip(s))

\* "part in text" for two sequences of pieces
Contains(text, part) ==
    \E i \in 1 .. Len(text) + 1 :
        /\ i + Len(part) - 1 <= Len(text)
        /\ SubSeq(text, i, i + Len(part) - 1) = part

\* bool(v) for the values the clients test
Truthy(v) ==
    CASE v.t = "None" -> FALSE
      [] v.t = "str"  -> v.s # <<>>
      [] v.t = "list" -> v.items # <<>>
      [] v.t = "dict" -> \E k \in DOMAIN v.d : v.d[k].t # "absent"
      [] v.t = "float" -> v.num # 0
      [] OTHER        -> TRUE

----------------------------------------------------------------------------
\* AlibabaCloudClient

\* re.match(r"^\d{4}-\d{2}$", s): Python's $ also matches before one
\* trailing newline.
ReMatchCycle(s) ==
    /\ Len(s) \in {7, 8}
    /\ \A i \in {1, 2, 3, 4, 6, 7} : s[i] \in Digits
    /\ s[5] = "-"
    /\ Len(s) = 8 => s[8] = "\n"

\* the same pattern without the end anchor
ReMatchCyclePrefix(s) ==
    /\ Len(s) >= 7
    /\ \A i \in {1, 2, 3, 4, 6, 7} : s[i] \in Digits
    /\ s[5] = "-"

_validate_billing_cycle_unanchored(cycle) == ReMatchCyclePrefix(cycle)

\* TRUE when _validate_billing_cycle returns, FALSE when it raises ValueError
_validate_billing_cycle(cycle) == ReMatchCycle(cycle)

_has_more_data_no_strip(tok) == Truthy(tok)

\* bool(next_token and next_token.strip())
_has_more_data(tok) == Truthy(tok) /\ Truthy(Str(Strip(tok.s)))

ExtendReplacing(acc, items) == items

\* list.extend
Extend(acc, items) == acc \o items

AttachStripped(tok) == IF Truthy(tok) THEN Str(Strip(tok.s)) ELSE None

\* "if next_token: request.add_query_param("NextToken", next_token)":
\* the NextToken parameter of the request, None when it is not added
AttachToken(tok) == IF Truthy(tok) THEN tok ELSE None

_build_bill_request(cycle, date, tok) ==
    [Action       |-> "DescribeInstanceBill",
     Protocol     |-> "http",
     BillingCycle |-> cycle,
     MaxResults   |-> Str(<<ToString(DEFAULT_MAX_PAGE_SIZE)>>),
     BillingDate  |-> IF Truthy(date) THEN date ELSE None,
     Granularity  |-> IF Truthy(date) THEN Str(<<"DAILY">>) ELSE None,
     NextToken    |-> AttachToken(tok)]

_build_request_without_cursor(cycle, tok) ==
    [Action       |-> "DescribeInstanceAmortizedCostByAmortizationPeriod",
     Protocol     |-> "https",
     BillingCycle |-> cycle,
     MaxResults   |-> [t |-> "int", n |-> DEFAULT_MAX_PAGE_SIZE],
     BillingDate  |-> None,
     Granularity  |-> None,
     NextToken    |-> None]

_build_request(cycle, tok) ==
    [Action       |-> "DescribeInstanceAmortizedCostByAmortizationPeriod",
     Protocol     |-> "https",
     BillingCycle |-> cycle,
     MaxResults   |-> [t |-> "int", n |-> DEFAULT_MAX_PAGE_SIZE],
     BillingDate  |-> None,
     Granularity  |-> None,
     NextToken    |-> AttachToken(tok)]

\* Inputs ------------------------------------------------------------------

Cycles ==
    { <<"2", "0", "2", "5", "-", "1", "2">>,
      <<"1", "9", "9", "9", "-", "0", "1">>,
      <<"2", "0", "2", "5", "-", "1", "2", "\n">>,
      <<"2", "0", "2", "5", "/", "1", "2">>,
      <<"2", "5", "-", "1", "2">>,
      <<>>,
      <<"2", "0", "2", "5", "-", "1", "2", "3">>,
      <<"2", "0", "2", "5", "-", "1", "2", " ">>,
      <<" ", "2", "0", "2", "5", "-", "1", "2">>,
      <<"2", "0", "2", "5", "-", "1", "x">>,
      <<"2", "0", "2", "5", "-", "1", "2", "\n", "\n">> }

Dates == { None, Str(<<"2025-12-01">>) }

\* NextToken of a validated page: Optional[str], None when absent or null
Tokens ==
    { None, Str(<<>>), Str(<<" ">>), Str(<<"\t", " ">>),
      Str(<<"a">>), Str(<<"b">>), Str(<<" ", "a", " ">>) }

\* What do_action_with_exception and the provider can answer to one request:
\* an SDK exception, an empty response, a text that is not JSON, a JSON
\* payload that fails model_validate, or a valid page.
Answers ==
    { [k |-> "sdk_exception"], [k |-> "empty"], [k |-> "not_json"],
      [k |-> "invalid_schema"] }
    \cup { [k |-> "page", n |-> n, NextToken |-> tok] :
              n \in 0 .. MaxItems, tok \in Tokens }

\* the Items of the page answered to request number p
PageItems(p, n) == [i \in 1 .. n |-> <<p, i>>]

\* make_request (lines 49-56) followed by model_validate: the exception the
\* bill fetch lets through, None for a valid page
BillFailure(a) ==
    CASE a.k = "sdk_exception"  -> Exception("ServerException", <<"sdk">>)
      [] a.k = "empty"          -> Exception("ValueError", <<"Empty or invalid response">>)
      [] a.k = "not_json"       -> Exception("ValueError", <<"Failed to parse response JSON: ", "json">>)
      [] a.k = "invalid_schema" -> Exception("ValidationError", <<"validation">>)
      [] OTHER                  -> None

\* _send_request and _parse_response: the exception the amortized fetch
\* raises, None for a valid page
AmortizedFailure(a) ==
    CASE a.k \in {"sdk_exception", "empty", "not_json"} ->
           Exception("APIError",
                     <<"Failed to fetch amortized cost data: ">> \o BillFailure(a).msg)
      [] a.k = "invalid_schema" ->
           [t |-> "exc", cls |-> "InvalidResponseError",
            msg |-> <<"Invalid reponse data format: ", "validation">>,
            response_data |-> a]
      [] OTHER -> None

ClientFree == pc \in {"idle", "returned", "raised"}

FetchOps == {"fetch_instance_bill_by_billing_cycle",
             "fetch_instance_amortized_cost_by_amortization_period"}

FetchEnterResuming(name, cycle, date) ==
    /\ ClientFree
    /\ op' = name
    /\ billing_cycle' = cycle
    /\ billing_date' = date
    /\ requests' = <<>>
    /\ pages' = <<>>
    /\ page_response' = None
    /\ ret' = None
    /\ UNCHANGED <<next_token, result, azureVars, pureVars>>
    /\ IF _validate_billing_cycle(cycle)
       THEN pc' = "loop" /\ exc' = None
       ELSE /\ pc' = "raised"
            /\ exc' = Exception("ValueError",
                                <<"Invalid billing cycle format: ">> \o cycle
                                    \o <<", expected YYYY-MM">>)

\* lines 74-76 / 137-140: validation, then the empty accumulator and cursor
FetchEnter(name, cycle, date) ==
    /\ ClientFree
    /\ op' = name
    /\ billing_cycle' = cycle
    /\ billing_date' = date
    /\ next_token' = None
    /\ result' = <<>>
    /\ requests' = <<>>
    /\ pages' = <<>>
    /\ page_response' = None
    /\ ret' = None
    /\ UNCHANGED <<azureVars, pureVars>>
    /\ IF _validate_billing_cycle(cycle)
       THEN pc' = "loop" /\ exc' = None
       ELSE /\ pc' = "raised"
            /\ exc' = Exception("ValueError",
                                <<"Invalid billing cycle format: ">> \o cycle
                                    \o <<", expected YYYY-MM">>)

CallFetchBill ==
    \E cycle \in Cycles, date \in Dates :
        FetchEnter("fetch_instance_bill_by_billing_cycle", cycle, date)

CallFetchAmortized ==
    \E cycle \in Cycles :
        FetchEnter("fetch_instance_amortized_cost_by_amortization_period", cycle, None)

\* one iteration of "while True" with the answer a to its request req
FetchIteration(req, a, failure) ==
    /\ requests' = Append(requests, req)
    /\ page_response' = a
    /\ UNCHANGED <<op, billing_cycle, billing_date, azureVars, pureVars>>
    /\ IF a.k # "page"
       THEN /\ pc' = "raised"
            /\ exc' = failure
            /\ UNCHANGED <<next_token, result, pages, ret>>
       ELSE LET items == PageItems(Len(requests) + 1, a.n)
                acc   == Extend(result, items)
            IN /\ pages' = Append(pages, [Items |-> items, NextToken |-> a.NextToken])
               /\ result' = acc
               /\ exc' = None
               /\ IF _has_more_data(a.NextToken)
                  THEN /\ next_token' = a.NextToken
                       /\ pc' = "loop"
                       /\ ret' = None
                  ELSE /\ pc' = "returned"
                       /\ ret' = List(acc)
                       /\ UNCHANGED next_token

\* lines 78-93
FetchBillPage ==
    /\ op = "fetch_instance_bill_by_billing_cycle"
    /\ pc = "loop"
    /\ Len(requests) < MaxPages
    /\ \E a \in Answers :
         FetchIteration(_build_bill_request(billing_cycle, billing_date, next_token),
                        a, BillFailure(a))

\* lines 142-153 (next_token is assigned before the test; after a page without
\* more data the loop is left and the variable is dead)
FetchAmortizedPage ==
    /\ op = "fetch_instance_amortized_cost_by_amortization_period"
    /\ pc = "loop"
    /\ Len(requests) < MaxPages
    /\ \E a \in Answers :
         FetchIteration(_build_request(billing_cycle, next_token),
                        a, AmortizedFailure(a))

\* alibaba_cloud/client.py __init__: the client holds no fetch state
AlibabaConstructed ==
    /\ billing_cycle = <<>>
    /\ billing_date = None
    /\ next_token = None
    /\ result = <<>>
    /\ requests = <<>>
    /\ pages = <<>>
    /\ page_response = None

\* azure_cloud/client.py __init__: no cached token, nothing in progress
AzureConstructed ==
    /\ _current_token = None
    /\ token = None
    /\ url = None
    /\ max_retries = 0
    /\ retry_count = 0
    /\ http = <<>>
    /\ slept = 0
    /\ response = None
    /\ inner = None
    /\ reader = <<>>
    /\ yielded = <<>>
    /\ earlier = None
    /\ printed = <<>>

Init ==
    /\ op = "none"
    /\ pc = "idle"
    /\ ret = None
    /\ exc = None
    /\ AlibabaConstructed
    /\ AzureConstructed
    /\ arg = None

NextAlibaba ==
    \/ CallFetchBill
    \/ CallFetchAmortized
    \/ FetchBillPage
    \/ FetchAmortizedPage

SpecAlibaba == Init /\ [][NextAlibaba]_vars

----------------------------------------------------------------------------
\* Claims about the paginated fetches (checked under SpecAlibaba)

RECURSIVE ConcatPages(_)
ConcatPages(ps) ==
    IF ps = <<>> THEN <<>> ELSE Head(ps).Items \o ConcatPages(Tail(ps))

RECURSIVE SumCounts(_)
SumCounts(ps) ==
    IF ps = <<>> THEN 0 ELSE Len(Head(ps).Items) + SumCounts(Tail(ps))

\* a cursor the claims call absent or blank: None, empty, or whitespace only
BlankCursor(tok) ==
    tok = None \/ \A i \in 1 .. Len(tok.s) : tok.s[i] \in Whitespace

\* C1: when fetch_instance_bill_by_billing_cycle returns, its result is the
\* concatenation of the Items of the pages received, in the order received,
\* so its length is the sum of the per-page counts and no item occurs twice.
C1_ResultIsConcatenation ==
    (op = "fetch_instance_bill_by_billing_cycle" /\ pc = "returned") =>
        /\ ret = List(ConcatPages(pages))
        /\ Len(ret.items) = SumCounts(pages)
        /\ \A i, j \in 1 .. Len(ret.items) : ret.items[i] = ret.items[j] => i = j

C1_Witness ==
    /\ op = "fetch_instance_bill_by_billing_cycle"
    /\ pc = "returned"
    /\ Len(pages) = 3
    /\ Len(pages[1].Items) = 2
    /\ Len(pages[2].Items) = 0
    /\ Len(pages[3].Items) = 1
    /\ Len(ret.items) = 3

\* C2: a billing cycle that does not match ^\d{4}-\d{2}$ makes both fetches
\* raise ValueError naming the value, with no request issued.
C2_InvalidCycleRaisesBeforeAnyRequest ==
    (op \in FetchOps /\ ~ReMatchCycle(billing_cycle)) =>
        /\ pc = "raised"
        /\ exc.cls = "ValueError"
        /\ Contains(exc.msg, billing_cycle)
        /\ requests = <<>>
        /\ pages = <<>>
        /\ ret = None

C2_Witness ==
    /\ op = "fetch_instance_amortized_cost_by_amortization_period"
    /\ billing_cycle = <<"2", "0", "2", "5", "/", "1", "2">>
    /\ pc = "raised"
    /\ requests = <<>>

\* C3: the first request carries no NextToken, request i+1 carries exactly
\* the NextToken of page i (which was not blank), no request follows a page
\* with an absent or blank NextToken, and a fetch that returns has issued as
\* many requests as it received pages.
C3_CursorChain ==
    op \in FetchOps =>
        /\ Len(requests) >= 1 => requests[1].NextToken = None
        /\ Len(pages) <= Len(requests)
        /\ \A i \in 2 .. Len(requests) :
              /\ requests[i].NextToken = pages[i - 1].NextToken
              /\ ~BlankCursor(pages[i - 1].NextToken)
        /\ \A i \in 1 .. Len(pages) :
              BlankCursor(pages[i].NextToken) => Len(requests) = i
        /\ pc = "returned" =>
              /\ Len(requests) = Len(pages)
              /\ Len(pages) >= 1
              /\ BlankCursor(pages[Len(pages)].NextToken)

C3_Witness ==
    /\ op = "fetch_instance_bill_by_billing_cycle"
    /\ pc = "returned"
    /\ Len(requests) = 2
    /\ pages[1].NextToken = Str(<<" ", "a", " ">>)
    /\ requests[2].NextToken = Str(<<" ", "a", " ">>)
    /\ pages[2].NextToken = Str(<<>>)

\* C4: a NextToken that is empty or whitespace only is treated like an absent
\* one: _has_more_data is false for it, and the page that carries it is the
\* last page of the fetch, which returns without a further request.
C4_BlankCursorStops ==
    /\ \A tok \in Tokens : BlankCursor(tok) => ~_has_more_data(tok)
    /\ op \in FetchOps =>
          \A i \in 1 .. Len(pages) :
              BlankCursor(pages[i].NextToken) =>
                  /\ i = Len(pages)
                  /\ Len(requests) = i
                  /\ pc = "returned"
                  /\ ret = List(result)

C4_Witness ==
    /\ op = "fetch_instance_amortized_cost_by_amortization_period"
    /\ pc = "returned"
    /\ Len(pages) = 2
    /\ pages[2].NextToken = Str(<<"\t", " ">>)
    /\ Len(requests) = 2

\* the last request of the fetch brought a payload that fails model_validate
InvalidPage == page_response = [k |-> "invalid_schema"]

\* C11 as stated: in both fetches a page that does not validate against the
\* response schema aborts the fetch with an InvalidResponseError carrying the
\* raw payload; the page is not retried, no further page is requested and
\* its items are not added to the result
C11_InvalidPageRaisesInvalidResponse ==
    (op \in FetchOps /\ InvalidPage) =>
        /\ pc = "raised"
        /\ exc.cls = "InvalidResponseError"
        /\ exc.response_data = page_response
        /\ result = ConcatPages(pages)
        /\ Len(requests) = Len(pages) + 1

\* C12 as stated: the number of page requests of one fetch is bounded, so a
\* provider that keeps returning non-blank cursors cannot keep the fetch in
\* its loop: after MaxPages page requests no fetch is about to request again
C12_PageRequestsBounded ==
    (op \in FetchOps /\ pc = "loop") => Len(requests) < MaxPages

\* the cursors the requests of the fetch were sent with, in order
Cursors == [i \in 1 .. Len(requests) |-> requests[i].NextToken]

\* the cursors a sequence of pages calls for, whatever the fetch: none for the
\* first page, then the NextToken of the page before
CursorsFor(ps) == [i \in 1 .. Len(ps) |-> IF i = 1 THEN None ELSE ps[i - 1].NextToken]

\* the sequence of pages ends the pagination
LastPage(ps) == ps # <<>> /\ BlankCursor(ps[Len(ps)].NextToken)

\* C25: the two fetches have the same pagination control flow: in either
\* one, a fetch that has received the pages ps has issued Len(ps) requests
\* with the cursors CursorsFor(ps), has stopped exactly when ps ends with a
\* blank NextToken, and has accumulated the items of ps in order; the
\* requests of the two differ in the action name
C25_SamePaginationControlFlow ==
    (op \in FetchOps /\ pc \in {"loop", "returned"}) =>
        /\ Len(requests) = Len(pages)
        /\ Cursors = CursorsFor(pages)
        /\ (pc = "returned") = LastPage(pages)
        /\ result = ConcatPages(pages)
        /\ \A i \in 1 .. Len(requests) :
              requests[i].Action =
                 IF op = "fetch_instance_bill_by_billing_cycle"
                 THEN "DescribeInstanceBill"
                 ELSE "DescribeInstanceAmortizedCostByAmortizationPeriod"

\* the amortized fetch went through three pages with the cursors none, "a", "b"
C25_Witness ==
    /\ op = "fetch_instance_amortized_cost_by_amortization_period"
    /\ pc = "returned"
    /\ Len(pages) = 3
    /\ Cursors = <<None, Str(<<"a">>), Str(<<"b">>)>>
    /\ Len(result) >= 2

\* the last request of the fetch failed: request error, empty or non-JSON
\* response, or a payload that does not fit the schema
PageFailed == op \in FetchOps /\ page_response # None /\ page_response.k # "page"

\* the step is a fetch call on a client that is not inside a fetch
FetchCalled == ClientFree /\ op' \in FetchOps /\ requests' = <<>>

\* C26: a failure on any page makes the whole fetch raise and return
\* nothing, whatever pages it had received; and every fetch call, also one
\* that follows a failed or a finished fetch on the same client, starts with
\* no cursor and an empty accumulator, its first request carrying no cursor
C26_FailureRaisesAndNothingSurvives ==
    /\ [](PageFailed => (pc = "raised" /\ exc # None /\ ret = None))
    /\ []((op \in FetchOps /\ Len(requests) >= 1) => requests[1].NextToken = None)
    /\ [][FetchCalled => (next_token' = None /\ result' = <<>> /\ pages' = <<>>
                             /\ ret' = None)]_vars

\* the second page of a fetch failed after the first had brought items
C26_Witness ==
    /\ PageFailed
    /\ Len(requests) = 2
    /\ Len(pages) = 1
    /\ pages[1].Items # <<>>
    /\ pc = "raised"
    /\ ret = None

\* the last page received carries, as its NextToken, the cursor that the
\* request for this page was sent with
CursorRepeated ==
    /\ Len(pages) >= 1
    /\ Len(requests) = Len(pages)
    /\ ~BlankCursor(pages[Len(pages)].NextToken)
    /\ pages[Len(pages)].NextToken = requests[Len(requests)].NextToken

\* C23 as stated: when a page brings back the very cursor its request was
\* sent with, the fetch stops with an error (loop detected); no two
\* consecutive requests of a fetch carry the same cursor
C23_RepeatedCursorIsFatal ==
    op \in FetchOps =>
        /\ CursorRepeated => pc = "raised"
        /\ \A i \in 2 .. Len(requests) :
              requests[i - 1].NextToken # None =>
                  requests[i].NextToken # requests[i - 1].NextToken

----------------------------------------------------------------------------
\* AzureCloudClient: values

\* client.py:36
POLLING_INTERVAL == 30

\* a key a JSON object does not have
Absent == [t |-> "absent"]

\* a JSON object / Python dict: d maps each key the model knows to its value
\* or to Absent
Dict(d) == [t |-> "dict", d |-> d]

\* an exception on its way up the stack
Raise(cls, msg) == [t |-> "raise", cls |-> cls, msg |-> msg]

IsRaise(x) == x.t = "raise"

\* what json.loads / response.json() raise on a text that is not JSON
NotJson == [t |-> "JSONDecodeError"]

TypeName(v) ==
    CASE v.t = "None" -> "NoneType"
      [] v.t = "str"  -> "str"
      [] v.t = "list" -> "list"
      [] OTHER        -> "dict"

AttributeError(v) ==
    Raise("AttributeError", <<"'", TypeName(v), "' object has no attribute 'get'">>)

\* dict.get(key, default) on a dict
DictGet(dict, key, default) ==
    IF key \in DOMAIN dict.d /\ dict.d[key] # Absent THEN dict.d[key] ELSE default

\* v.get(key, default) on any value: AttributeError unless v is a dict
PyGet(v, key, default) ==
    IF v.t = "dict" THEN DictGet(v, key, default) ELSE AttributeError(v)

\* v[0] on a truthy value
Subscript0(v) ==
    CASE v.t = "list" -> v.items[1]
      [] v.t = "str"  -> Str(<<v.s[1]>>)
      [] OTHER        -> Raise("KeyError", <<"0">>)

\* a response body: its text (pieces) and what json.loads makes of it
TextBody(chars) == [s |-> chars, doc |-> NotJson]

JsonBody(v) == [s |-> <<"{json}">>, doc |-> v]

Response(status, location, body) ==
    [t |-> "response", status_code |-> status,
     headers |-> [Location |-> location], body |-> body]

\* (value, error) as the client returns it
Pair(value, error) == [value |-> value, error |-> error]

\* (status, csv_url, error) of check_ri_report_once
Triple(status, csv_url, error) ==
    [status |-> status, csv_url |-> csv_url, error |-> error]

Request(method, target, bearer, timeout) ==
    [method |-> method, url |-> target, bearer |-> bearer, timeout |-> timeout]

\* Inputs ------------------------------------------------------------------

ArgTokens == { None, Str(<<>>), Str(<<"T1">>) }

LocationUrls == { Str(<<"https://x/report1">>), Str(<<"https://x/report2">>) }

BlobLinkX == Str(<<"https://blob/X">>)

BlobLinkY == Str(<<"https://blob/Y">>)

Blob(link) == Dict([blobLink |-> link])

Manifest(blobs) == Dict([blobs |-> blobs])

ReportStatuses ==
    { Absent, None, Str(<<"Completed">>), Str(<<"InProgress">>), Str(<<"Failed">>) }

Manifests ==
    { Absent, None,
      Manifest(Absent),
      Manifest(None),
      Manifest(List(<<>>)),
      Manifest(List(<<Blob(Absent)>>)),
      Manifest(List(<<Blob(None)>>)),
      Manifest(List(<<Blob(Str(<<>>))>>)),
      Manifest(List(<<Blob(BlobLinkX)>>)),
      Manifest(List(<<Blob(BlobLinkY), Blob(BlobLinkX)>>)),
      Manifest(List(<<BlobLinkX>>)) }

BlankBodies == { TextBody(<<>>), TextBody(<<" ", "\n">>) }

GarbageBody == TextBody(<<"<", "h", "t", "m", "l", ">">>)

ErrorJsonBody == JsonBody(Dict([error |-> Str(<<"denied">>)]))

PollBodies ==
    BlankBodies
    \cup { GarbageBody, JsonBody(None), JsonBody(List(<<>>)) }
    \cup { JsonBody(Dict([status |-> st, manifest |-> m])) :
              st \in ReportStatuses, m \in Manifests }

NetworkFailures ==
    { Raise("RequestException", <<"connection timed out">>),
      Raise("Exception", <<"boom">>) }

\* what one GET of the location URL can bring
PollResponses ==
    { Response(200, None, b) : b \in PollBodies }
    \cup { Response(st, None, b) :
              st \in {202, 404, 500}, b \in {TextBody(<<>>), GarbageBody, ErrorJsonBody} }
    \cup NetworkFailures

\* what the POST of the report request can bring
StartResponses ==
    { Response(st, loc, b) :
         st \in {200, 202, 401, 500},
         loc \in {None, Str(<<>>), Str(<<"https://x/report1">>)},
         b \in {TextBody(<<>>), ErrorJsonBody} }
    \cup NetworkFailures

TokenBodies ==
    { GarbageBody, JsonBody(None),
      JsonBody(Dict([access_token |-> Absent])),
      JsonBody(Dict([access_token |-> None])),
      JsonBody(Dict([access_token |-> Str(<<>>)])),
      JsonBody(Dict([access_token |-> Str(<<"T0">>)])) }

\* what the POST to the token endpoint can bring
TokenResponses ==
    { Response(st, None, b) : st \in {200, 401}, b \in TokenBodies }
    \cup NetworkFailures

----------------------------------------------------------------------------
\* AzureCloudClient: methods

UseTokenCachedFirst(tok, cached) == IF Truthy(cached) THEN cached ELSE tok

\* "token if token else self._current_token"
UseToken(tok, cached) == IF Truthy(tok) THEN tok ELSE cached

NoTokenMessage == Str(<<"No valid access token provided">>)

\* ", details: {error_details}" when response.json() succeeds
ErrorDetails(rsp) ==
    IF rsp.body.doc # NotJson THEN <<", details: ">> \o rsp.body.s ELSE <<>>

\* lines 63-78
_validate_token_response(rsp) ==
    IF rsp.status_code # 200
    THEN Pair(None, Str(<<"HTTP request failed with status code: ",
                          ToString(rsp.status_code)>>))
    ELSE IF rsp.body.doc = NotJson
    THEN Pair(None, Str(<<"Response is not valid JSON">>))
    ELSE LET access_token == PyGet(rsp.body.doc, "access_token", None)
         IN IF IsRaise(access_token)
            THEN Pair(None, Str(<<"Error parsing response: ">> \o access_token.msg))
            ELSE IF ~Truthy(access_token)
            THEN Pair(None, Str(<<"access_token not found in response">>))
            ELSE Pair(access_token, None)

\* lines 88-102: the (token, error) get_access_token returns
AccessTokenResult(rsp) ==
    IF IsRaise(rsp)
    THEN IF rsp.cls = "RequestException"
         THEN Pair(None, Str(<<"Request failed: ">> \o rsp.msg))
         ELSE Pair(None, Str(<<"Unknown error: ">> \o rsp.msg))
    ELSE _validate_token_response(rsp)

LocationResultAnyStatus(rsp) ==
    IF IsRaise(rsp)
    THEN Pair(None, Str(<<"Request exception: ">> \o rsp.msg))
    ELSE IF Truthy(rsp.headers.Location)
    THEN Pair(rsp.headers.Location, None)
    ELSE Pair(None, Str(<<"Location header not found in response">>))

\* lines 143-163: the (location, error) get_ri_location returns
LocationResult(rsp) ==
    IF IsRaise(rsp)
    THEN IF rsp.cls = "RequestException"
         THEN Pair(None, Str(<<"Request exception: ">> \o rsp.msg))
         ELSE Pair(None, Str(<<"Error processing request: ">> \o rsp.msg))
    ELSE IF rsp.status_code = 202
    THEN LET location == rsp.headers.Location
         IN IF Truthy(location)
            THEN Pair(location, None)
            ELSE Pair(None, Str(<<"Location header not found in response">>))
    ELSE Pair(None, Str(<<"Request failed with status code: ",
                          ToString(rsp.status_code)>> \o ErrorDetails(rsp)))

\* lines 297-305
_parse_blob_response(body) ==
    IF body.doc = NotJson
    THEN Raise("ValueError", <<"Failed to parse JSON response">>)
    ELSE LET status   == PyGet(body.doc, "status", Str(<<>>))
             manifest == PyGet(body.doc, "manifest", Dict([blobs |-> Absent]))
         IN IF IsRaise(status)
            THEN Raise("ValueError", <<"Error parsing blob info: ">> \o status.msg)
            ELSE [t |-> "BlobInfo", status |-> status, manifest |-> manifest]

ParseErrorNoText(e) == Triple("error", None, Str(<<"Error parsing response">>))

\* line 245
ParseError(e) == Triple("error", None, Str(<<"Error parsing response: ">> \o e.msg))

CompletedBranchTrusting(manifest) ==
    LET blobs == PyGet(manifest, "blobs", None)
    IN IF IsRaise(blobs) THEN ParseError(blobs)
       ELSE IF Truthy(blobs)
       THEN LET first == Subscript0(blobs)
                link  == IF IsRaise(first) THEN first ELSE PyGet(first, "blobLink", None)
            IN IF IsRaise(link) THEN ParseError(link)
               ELSE Triple("completed", link, None)
       ELSE Triple("pending", None, None)

\* lines 237-241: status is "Completed"
CompletedBranch(manifest) ==
    LET blobs == PyGet(manifest, "blobs", None)
    IN IF IsRaise(blobs) THEN ParseError(blobs)
       ELSE IF Truthy(blobs)
       THEN LET first == Subscript0(blobs)
                link  == IF IsRaise(first) THEN first ELSE PyGet(first, "blobLink", None)
            IN IF IsRaise(link) THEN ParseError(link)
               ELSE Triple("completed", link, None)
       ELSE Triple("error", None, Str(<<"Report completed but no CSV link found">>))

CheckBodyNoticingFailure(body) ==
    LET blob_info == _parse_blob_response(body)
    IN IF IsRaise(blob_info) THEN ParseError(blob_info)
       ELSE IF blob_info.status = Str(<<"Completed">>)
       THEN CompletedBranch(blob_info.manifest)
       ELSE IF blob_info.status = Str(<<"Failed">>)
       THEN Triple("error", None, Str(<<"Report generation failed">>))
       ELSE Triple("pending", None, None)

\* lines 235-245: a status 200 response with a non-blank body
CheckBody(body) ==
    LET blob_info == _parse_blob_response(body)
    IN IF IsRaise(blob_info) THEN ParseError(blob_info)
       ELSE IF blob_info.status = Str(<<"Completed">>)
       THEN CompletedBranch(blob_info.manifest)
       ELSE Triple("pending", None, None)

\* lines 225-252: the triple check_ri_report_once returns for the response
\* (or network exception) of its GET
CheckOnceResult(rsp) ==
    IF IsRaise(rsp)
    THEN IF rsp.cls = "RequestException"
         THEN Triple("error", None, Str(<<"Request exception: ">> \o rsp.msg))
         ELSE Triple("error", None, Str(<<"Unknown error: ">> \o rsp.msg))
    ELSE IF rsp.status_code = 202
    THEN Triple("pending", None, None)
    ELSE IF rsp.status_code = 200
    THEN IF ~Truthy(Str(Strip(rsp.body.s)))
         THEN Triple("pending", None, None)
         ELSE CheckBody(rsp.body)
    ELSE Triple("error", None,
                Str(<<"Unexpected status code: ", ToString(rsp.status_code)>>))

\* entry of an Azure method: arguments bound, nothing issued yet
AzureEnter(name, tok, target, retries) ==
    /\ ClientFree
    /\ op' = name
    /\ token' = tok
    /\ url' = target
    /\ max_retries' = retries
    /\ retry_count' = 0
    /\ http' = <<>>
    /\ slept' = 0
    /\ response' = None
    /\ inner' = None
    /\ reader' = <<>>
    /\ yielded' = <<>>
    /\ exc' = None
    /\ earlier' = IF name = "check_ri_report_once" THEN earlier ELSE None
    /\ printed' = <<>>
    /\ UNCHANGED <<_current_token, alibabaVars, pureVars>>

\* lines 88-93
CallGetAccessToken ==
    /\ AzureEnter("get_access_token", None, None, 0)
    /\ pc' = "post"
    /\ ret' = None

GetAccessTokenPostForgetting ==
    /\ op = "get_access_token"
    /\ pc = "post"
    /\ \E rsp \in TokenResponses :
         LET r == AccessTokenResult(rsp)
         IN /\ http' = Append(http, Request("POST", Str(<<"TOKEN_URL">>), None, None))
            /\ response' = rsp
            /\ _current_token' = r.value
            /\ ret' = r
            /\ pc' = "returned"
    /\ UNCHANGED <<op, exc, token, url, max_retries, retry_count, slept, inner,
                   reader, yielded, earlier, printed, alibabaVars, pureVars>>

\* lines 93-102
GetAccessTokenPost ==
    /\ op = "get_access_token"
    /\ pc = "post"
    /\ \E rsp \in TokenResponses :
         LET r == AccessTokenResult(rsp)
         IN /\ http' = Append(http, Request("POST", Str(<<"TOKEN_URL">>), None, None))
            /\ response' = rsp
            /\ _current_token' = IF ~Truthy(r.error) THEN r.value ELSE _current_token
            /\ ret' = r
            /\ pc' = "returned"
    /\ UNCHANGED <<op, exc, token, url, max_retries, retry_count, slept, inner,
                   reader, yielded, earlier, printed, alibabaVars, pureVars>>

\* lines 133-135
CallGetRiLocation ==
    \E tok \in ArgTokens :
        /\ AzureEnter("get_ri_location", tok, None, 0)
        /\ IF Truthy(UseToken(tok, _current_token))
           THEN pc' = "post" /\ ret' = None
           ELSE pc' = "returned" /\ ret' = Pair(None, NoTokenMessage)

\* lines 137-163
GetRiLocationPost ==
    /\ op = "get_ri_location"
    /\ pc = "post"
    /\ \E rsp \in StartResponses :
         /\ http' = Append(http, Request("POST", Str(<<"BILLING_URL">>),
                                         UseToken(token, _current_token), None))
         /\ response' = rsp
         /\ ret' = LocationResult(rsp)
         /\ printed' = IF IsRaise(rsp) /\ rsp.cls = "RequestException"
                       THEN Append(printed, rsp.msg) ELSE printed
         /\ pc' = "returned"
    /\ UNCHANGED <<op, exc, _current_token, token, url, max_retries, retry_count,
                   slept, inner, reader, yielded, earlier, alibabaVars, pureVars>>

\* lines 176-196: the (report_data, error) get_ri_report returns
ReportResult(rsp) ==
    IF IsRaise(rsp)
    THEN IF rsp.cls = "RequestException"
         THEN Pair(None, Str(<<"Request exception: ">> \o rsp.msg))
         ELSE Pair(None, Str(<<"Error processing request: ">> \o rsp.msg))
    ELSE IF rsp.status_code = 200
    THEN IF rsp.body.doc = NotJson
         THEN Pair(None, Str(<<"Failed to parse response JSON">>))
         ELSE Pair(rsp.body.doc, None)
    ELSE IF rsp.status_code = 202
    THEN Pair(None, Str(<<"Report is still being generated, please retry later">>))
    ELSE Pair(None, Str(<<"Failed to fetch report, status code: ",
                          ToString(rsp.status_code)>> \o ErrorDetails(rsp)))

\* what the GET of get_ri_report can bring
ReportResponses ==
    { Response(200, None, b) : b \in {TextBody(<<>>), GarbageBody, ErrorJsonBody} }
    \cup { Response(st, None, ErrorJsonBody) : st \in {202, 500} }
    \cup NetworkFailures

CallGetRiReportUnchecked ==
    \E tok \in ArgTokens, target \in LocationUrls :
        /\ AzureEnter("get_ri_report", tok, target, 0)
        /\ pc' = "get"
        /\ ret' = None

\* lines 171-173
CallGetRiReport ==
    \E tok \in ArgTokens, target \in LocationUrls :
        /\ AzureEnter("get_ri_report", tok, target, 0)
        /\ IF Truthy(UseToken(tok, _current_token))
           THEN pc' = "get" /\ ret' = None
           ELSE pc' = "returned" /\ ret' = Pair(None, NoTokenMessage)

\* lines 175-196
GetRiReportGet ==
    /\ op = "get_ri_report"
    /\ pc = "get"
    /\ \E rsp \in ReportResponses :
         /\ http' = Append(http, Request("GET", url,
                                         UseToken(token, _current_token), 20))
         /\ response' = rsp
         /\ ret' = ReportResult(rsp)
         /\ pc' = "returned"
    /\ UNCHANGED <<op, exc, _current_token, token, url, max_retries, retry_count,
                   slept, inner, reader, yielded, earlier, printed, alibabaVars, pureVars>>

\* lines 219-221
CallCheckRiReportOnce ==
    \E tok \in ArgTokens, target \in LocationUrls :
        /\ AzureEnter("check_ri_report_once", tok, target, 0)
        /\ IF Truthy(UseToken(tok, _current_token))
           THEN pc' = "get" /\ ret' = None
           ELSE pc' = "returned" /\ ret' = Triple("error", None, NoTokenMessage)

CheckRiReportOnceGetRetrying ==
    /\ op = "check_ri_report_once"
    /\ pc = "get"
    /\ \E rsp \in PollResponses :
         LET r == CheckOnceResult(rsp)
         IN /\ http' = Append(http, Request("GET", url,
                                            UseToken(token, _current_token), 20))
            /\ response' = rsp
            /\ IF r.status = "pending"
               THEN /\ slept' = slept + POLLING_INTERVAL
                    /\ pc' = "get"
                    /\ ret' = None
               ELSE /\ slept' = slept
                    /\ pc' = "returned"
                    /\ ret' = r
    /\ UNCHANGED <<op, exc, _current_token, token, url, max_retries, retry_count,
                   inner, reader, yielded, earlier, printed, alibabaVars, pureVars>>

\* lines 223-252: the one GET and the classification of its response
CheckRiReportOnceGet ==
    /\ op = "check_ri_report_once"
    /\ pc = "get"
    /\ \E rsp \in PollResponses :
         /\ http' = Append(http, Request("GET", url,
                                         UseToken(token, _current_token), 20))
         /\ response' = rsp
         /\ ret' = CheckOnceResult(rsp)
         /\ pc' = "returned"
    /\ UNCHANGED <<op, exc, _current_token, token, url, max_retries, retry_count,
                   slept, inner, reader, yielded, earlier, printed, alibabaVars, pureVars>>

\* api/index.py azure_billing_poll: the caller of check_ri_report_once keeps
\* what a poll answered (the browser polls again later, with a new client)
CallerNotesPoll ==
    /\ op = "check_ri_report_once"
    /\ pc = "returned"
    /\ http # <<>>
    /\ earlier' = [response |-> response, result |-> ret, location_url |-> url]
    /\ UNCHANGED <<op, pc, ret, exc, _current_token, token, url, max_retries,
                   retry_count, http, slept, response, inner, reader, yielded,
                   printed, alibabaVars, pureVars>>


----------------------------------------------------------------------------
\* Claims about AzureCloudClient (checked under SpecAzure)

\* check_ri_report_once has returned after its GET
Polled == op = "check_ri_report_once" /\ pc = "returned" /\ http # <<>>

GotStatus(rsp, st) == ~IsRaise(rsp) /\ rsp.status_code = st

\* the text of the body is empty or whitespace only
BlankText(body) == \A i \in 1 .. Len(body.s) : body.s[i] \in Whitespace

\* the body is a JSON object whose status is "Completed"
CompletedDoc(body) ==
    /\ body.doc.t = "dict"
    /\ "status" \in DOMAIN body.doc.d
    /\ body.doc.d.status = Str(<<"Completed">>)

HasKey(v, key) == v.t = "dict" /\ key \in DOMAIN v.d /\ v.d[key] # Absent

\* manifest.blobs[0].blobLink of a JSON object, Absent when the path ends early
BlobLinkOf(doc) ==
    IF ~HasKey(doc, "manifest") THEN Absent
    ELSE IF ~HasKey(doc.d.manifest, "blobs") THEN Absent
    ELSE LET blobs == doc.d.manifest.d.blobs
         IN IF blobs.t # "list" \/ blobs.items = <<>> THEN Absent
            ELSE IF ~HasKey(blobs.items[1], "blobLink") THEN Absent
            ELSE blobs.items[1].d.blobLink

\* C5: with a token, the triple follows the (status, body) of the response:
\* 202 is pending; 200 with a blank body is pending; 200 with status
\* "Completed" and manifest.blobs[0].blobLink = X is completed with csv_url X;
\* 200 with status "Completed" and a manifest without blobs is error; 500 is
\* error; and a poll that sees the (status, body) an earlier poll saw returns
\* the triple the earlier poll returned.
C5_PollMapping ==
    Polled =>
        /\ GotStatus(response, 202) => ret = Triple("pending", None, None)
        /\ (GotStatus(response, 200) /\ BlankText(response.body)) =>
               ret = Triple("pending", None, None)
        /\ ( /\ GotStatus(response, 200)
             /\ CompletedDoc(response.body)
             /\ BlobLinkOf(response.body.doc).t = "str" ) =>
               ret = Triple("completed", BlobLinkOf(response.body.doc), None)
        /\ ( /\ GotStatus(response, 200)
             /\ CompletedDoc(response.body)
             /\ HasKey(response.body.doc, "manifest")
             /\ response.body.doc.d.manifest.t = "dict"
             /\ ~HasKey(response.body.doc.d.manifest, "blobs") ) =>
               ret.status = "error"
        /\ GotStatus(response, 500) => ret.status = "error"
        /\ ( /\ earlier # None
             /\ ~IsRaise(response)
             /\ ~IsRaise(earlier.response)
             /\ earlier.response.status_code = response.status_code
             /\ earlier.response.body = response.body ) =>
               ret = earlier.result

C5_Witness ==
    /\ Polled
    /\ GotStatus(response, 200)
    /\ ret = Triple("completed", BlobLinkX, None)
    /\ earlier # None
    /\ earlier.response = response
    /\ token = Str(<<"T1">>)
    /\ _current_token = Str(<<"T0">>)

\* C6: a body with status "Completed" and no blob link (manifest missing,
\* blobs missing or empty, first blob without blobLink) gives an error
\* result; every "completed" result carries a csv_url, and a null csv_url
\* comes only with pending or error.
C6_CompletedCarriesLink ==
    Polled =>
        /\ ( /\ GotStatus(response, 200)
             /\ CompletedDoc(response.body)
             /\ BlobLinkOf(response.body.doc) \in {Absent, None} ) =>
               ret.status = "error"
        /\ ret.status = "completed" => ret.csv_url # None
        /\ ret.csv_url = None => ret.status \in {"pending", "error"}

\* C7: one call of check_ri_report_once issues at most one GET, to the
\* location URL (exactly one when a token is available), and never sleeps or
\* retries, whatever the response.
C7_SinglePollNoSleep ==
    op = "check_ri_report_once" =>
        /\ Len(http) <= 1
        /\ slept = 0
        /\ retry_count = 0
        /\ \A i \in 1 .. Len(http) :
              http[i] = Request("GET", url, UseToken(token, _current_token), 20)
        /\ pc = "returned" =>
              Len(http) = IF Truthy(UseToken(token, _current_token)) THEN 1 ELSE 0

C7_Witness ==
    /\ Polled
    /\ GotStatus(response, 202)
    /\ ret.status = "pending"
    /\ Len(http) = 1
    /\ slept = 0

\* C8: get_ri_location returns (location, None) exactly when the response
\* has status 202 and a non-empty Location header, and then the location is
\* that header; 202 without the header and every other status give an error
\* (naming the status when it is not 202); exactly one of the pair is set.
C8_LocationIffAcceptedWithHeader ==
    (op = "get_ri_location" /\ pc = "returned") =>
        /\ (ret.value = None) # (ret.error = None)
        /\ http = <<>> => ret.error = NoTokenMessage
        /\ http # <<>> =>
              /\ ret.error = None <=>
                    /\ GotStatus(response, 202)
                    /\ response.headers.Location.t = "str"
                    /\ response.headers.Location.s # <<>>
              /\ ret.error = None => ret.value = response.headers.Location
              /\ (~IsRaise(response) /\ response.status_code # 202) =>
                    Contains(ret.error.s, <<ToString(response.status_code)>>)

C8_Witness ==
    /\ op = "get_ri_location"
    /\ pc = "returned"
    /\ http # <<>>
    /\ GotStatus(response, 202)
    /\ ret = Pair(Str(<<"https://x/report1">>), None)

PolledAfterCompleted ==
    /\ Polled
    /\ earlier # None
    /\ earlier.location_url = url
    /\ earlier.result.status = "completed"

\* the response itself says the report is not finished: 202, or 200 with a
\* blank body or with a JSON object whose status is not "Completed"
UnfinishedResponse(rsp) ==
    \/ GotStatus(rsp, 202)
    \/ /\ GotStatus(rsp, 200)
       /\ \/ BlankText(rsp.body)
          \/ rsp.body.doc.t = "dict" /\ ~CompletedDoc(rsp.body)

\* C13 as stated: once a poll of a location has reported completed, no later
\* poll of the same location reports pending
C13_NoPendingAfterCompleted ==
    PolledAfterCompleted => ret.status # "pending"

\* C13 amended: check_ri_report_once keeps no poll state, the status it
\* reports follows the response of that poll alone: after a poll that
\* reported completed, a later poll of the same location reports pending
\* exactly when its own response is an unfinished one (202, or 200 with a
\* blank body or a status other than "Completed"), and reports completed
\* again when it sees the response of the completed poll again
C13_StatusFollowsResponse ==
    PolledAfterCompleted =>
        /\ ret.status = "pending" <=> UnfinishedResponse(response)
        /\ response = earlier.response => ret = earlier.result

\* a 202 seen after the completed poll is reported as pending
C13_Witness ==
    /\ PolledAfterCompleted
    /\ GotStatus(response, 202)
    /\ ret.status = "pending"
    /\ earlier.result.csv_url = BlobLinkX

----------------------------------------------------------------------------
\* BillingRecord (azure_cloud/types.py) and the CSV text

DigitValue ==
    [c \in Digits |->
        CASE c = "0" -> 0 [] c = "1" -> 1 [] c = "2" -> 2 [] c = "3" -> 3
          [] c = "4" -> 4 [] c = "5" -> 5 [] c = "6" -> 6 [] c = "7" -> 7
          [] c = "8" -> 8 [] OTHER -> 9]

IsDigitSeq(s) == s # <<>> /\ \A i \in 1 .. Len(s) : s[i] \in Digits

RECURSIVE NatOf(_)
NatOf(s) ==
    IF s = <<>> THEN 0
    ELSE 10 * NatOf(SubSeq(s, 1, Len(s) - 1)) + DigitValue[s[Len(s)]]

\* str.split(sep) for a one-character separator
RECURSIVE SplitOn(_, _)
SplitOn(s, sep) ==
    IF \A i \in 1 .. Len(s) : s[i] # sep THEN <<s>>
    ELSE LET k == CHOOSE i \in 1 .. Len(s) :
                     s[i] = sep /\ \A j \in 1 .. i - 1 : s[j] # sep
         IN <<SubSeq(s, 1, k - 1)>> \o SplitOn(SubSeq(s, k + 1, Len(s)), sep)

IsLeap(y) == (y % 4 = 0 /\ y % 100 # 0) \/ y % 400 = 0

DaysIn(m, y) ==
    CASE m \in {4, 6, 9, 11} -> 30
      [] m = 2 -> IF IsLeap(y) THEN 29 ELSE 28
      [] OTHER -> 31

ValueError(msg) == Raise("ValueError", msg)

\* datetime.strptime(s, "%m/%d/%Y").date(): %m is 1[0-2]|0[1-9]|[1-9], %d is
\* 3[01]|[12]\d|0[1-9]|[1-9]| [1-9], %Y is four digits, the whole text must be
\* consumed and the day must exist
Strptime(s) ==
    LET parts == SplitOn(s, "/")
    IN IF Len(parts) # 3 THEN ValueError(<<"does not match format">>)
       ELSE LET mt == parts[1]
                dt == IF Len(parts[2]) = 2 /\ parts[2][1] = " "
                      THEN <<parts[2][2]>> ELSE parts[2]
                yt == parts[3]
            IN IF ~( /\ IsDigitSeq(mt) /\ Len(mt) <= 2 /\ NatOf(mt) \in 1 .. 12
                     /\ IsDigitSeq(dt) /\ Len(parts[2]) <= 2 /\ NatOf(dt) \in 1 .. 31
                     /\ IsDigitSeq(yt) /\ Len(yt) = 4 )
               THEN ValueError(<<"does not match format">>)
               ELSE IF NatOf(yt) < 1 \/ NatOf(dt) > DaysIn(NatOf(mt), NatOf(yt))
               THEN ValueError(<<"day is out of range for month">>)
               ELSE [t |-> "date", year |-> NatOf(yt), month |-> NatOf(mt),
                     day |-> NatOf(dt)]

\* types.py lines 84-91
parse_date(v) ==
    IF ~Truthy(v) THEN None
    ELSE IF v.t # "str"
    THEN Raise("TypeError", <<"strptime() argument 1 must be str, not ", v.t>>)
    ELSE LET d == Strptime(v.s) IN IF IsRaise(d) THEN None ELSE d

RECURSIVE DropTrailingZeros(_)
DropTrailingZeros(s) ==
    IF s # <<>> /\ s[Len(s)] = "0"
    THEN DropTrailingZeros(SubSeq(s, 1, Len(s) - 1)) ELSE s

\* float(text) for plain decimal texts (optional sign, digits, optional
\* fraction; surrounding whitespace is ignored): the value as numerator over a
\* power of ten, ValueError for any other text of the model's alphabet
FloatOf(text) ==
    LET body  == Strip(text)
        neg   == body # <<>> /\ body[1] = "-"
        mag   == IF body # <<>> /\ body[1] \in {"-", "+"} THEN Tail(body) ELSE body
        parts == SplitOn(mag, ".")
        int   == parts[1]
        frac  == IF Len(parts) = 2 THEN DropTrailingZeros(parts[2]) ELSE <<>>
        ok    == /\ Len(parts) <= 2
                 /\ \A i \in 1 .. Len(mag) : mag[i] \in Digits \cup {"."}
                 /\ \E i \in 1 .. Len(mag) : mag[i] \in Digits
        num   == NatOf(int \o frac)
    IN IF ~ok THEN ValueError(<<"could not convert string to float">>)
       ELSE [t |-> "float", num |-> IF neg THEN 0 - num ELSE num, scale |-> Len(frac)]

Zero == [t |-> "float", num |-> 0, scale |-> 0]

\* types.py lines 93-95: float(v) if v else 0.0
parse_float(v) ==
    IF ~Truthy(v) THEN Zero
    ELSE IF v.t = "float" THEN v
    ELSE FloatOf(v.s)

\* types.py lines 8-14
ChargeType ==
    { <<"RoundingAdjustment">>, <<"Purchase">>, <<"Usage">>, <<"Refund">>,
      <<"Other">>, <<"UnusedReservation">> }

\* The columns of the model: one of each kind of BillingRecord field.
\*   invoiceId, provider        str, required
\*   servicePeriodStartDate     Optional[date] = None, parse_date
\*   date                       Optional[date], required (alias of billing_date), parse_date
\*   chargeType                 ChargeType, required
\*   costInBillingCurrency      float, required, parse_float
\*   paygCostInUsd              float, required, no validator
\*   tags                       Optional[str] = None
Columns ==
    << "invoiceId", "servicePeriodStartDate", "date", "chargeType",
       "costInBillingCurrency", "paygCostInUsd", "tags", "provider" >>

ValidationError(field) == Raise("ValidationError", <<"validation error for BillingRecord: ", field>>)

\* types.py lines 17-95: BillingRecord.model_validate(row) for a row of
\* csv.DictReader (each value a str, or None for a cell the line lacks) or
\* for the values of a dumped record. A TypeError of a validator is not
\* turned into a ValidationError: it leaves model_validate as it is.
model_validate(row) ==
    LET has(k)   == k \in DOMAIN row
        isstr(k) == has(k) /\ row[k].t = "str"
        start    == IF has("servicePeriodStartDate")
                    THEN parse_date(row["servicePeriodStartDate"]) ELSE None
        bdate    == IF has("date") THEN parse_date(row["date"]) ELSE None
        cost     == parse_float(row["costInBillingCurrency"])
        pv       == row["paygCostInUsd"]
        payg     == IF pv.t = "float" THEN pv
                    ELSE IF pv.t # "str" \/ pv.s = <<>>
                    THEN ValueError(<<"Input should be a valid number">>)
                    ELSE FloatOf(pv.s)
    IN IF IsRaise(start) THEN start
       ELSE IF IsRaise(bdate) THEN bdate
       ELSE IF ~isstr("invoiceId") THEN ValidationError("invoiceId")
       ELSE IF ~has("date") THEN ValidationError("date")
       ELSE IF ~isstr("chargeType") \/ row["chargeType"].s \notin ChargeType
       THEN ValidationError("chargeType")
       ELSE IF ~has("costInBillingCurrency") \/ IsRaise(cost)
       THEN ValidationError("costInBillingCurrency")
       ELSE IF ~has("paygCostInUsd") \/ IsRaise(payg)
       THEN ValidationError("paygCostInUsd")
       ELSE IF ~isstr("provider") THEN ValidationError("provider")
       ELSE [t |-> "BillingRecord",
             invoiceId |-> row["invoiceId"],
             servicePeriodStartDate |-> start,
             billing_date |-> bdate,
             chargeType |-> row["chargeType"],
             costInBillingCurrency |-> cost,
             paygCostInUsd |-> payg,
             tags |-> IF has("tags") THEN row["tags"] ELSE None,
             provider |-> row["provider"]]

\* a text as one character per piece
Chars(s) == Str(s)

Date1 == <<"1", "2", "/", "3", "1", "/", "2", "0", "2", "5">>

Date2 == <<"2", "/", "3", "0", "/", "2", "0", "2", "4">>

\* the lines a downloaded CSV can hold after its header: the cells of each
CsvLines ==
    { << <<"INV1">>, Date1, Date1, <<"Usage">>, <<"1", ".", "5", "0">>, <<"2">>,
         <<"k:v">>, <<"Azure">> >>,
      << <<"INV2">>, <<>>, Date2, <<"Refund">>, <<>>, <<"0", ".", "5">>,
         <<>>, <<"Azure">> >>,
      << <<"INV3">>, Date1, Date1, <<"Bogus">>, <<"1">>, <<"2">>,
         <<>>, <<"Azure">> >>,
      << <<"INV4">>, Date1, Date1, <<"Usage">>, <<"a", "b", "c">>, <<"2">>,
         <<>>, <<"Azure">> >>,
      << <<"INV5">>, Date1, Date1, <<"Usage">> >>,
      << >> }

MaxRows == 2

MaxRetries == 2

RowSeqs == UNION { [1 .. n -> CsvLines] : n \in 0 .. MaxRows }

\* response.content: bytes that are or are not UTF-8, with or without a
\* byte-order mark, holding the header line and the data lines
Bytes(valid, bom, lines) ==
    [t |-> "bytes", valid_utf8 |-> valid, bom |-> bom, lines |-> lines]

EmptyBytes == Bytes(TRUE, FALSE, <<>>)

CsvContents ==
    { EmptyBytes, Bytes(FALSE, FALSE, <<Columns>>), Bytes(TRUE, TRUE, <<>>) }
    \cup { Bytes(TRUE, bom, <<Columns>> \o rows) : bom \in BOOLEAN, rows \in RowSeqs }

\* the lines of a text whose byte-order mark was not removed: the mark
\* stays in front of the first field name
WithMark(lines) ==
    IF lines = <<>> THEN << <<"BOM">> >>
    ELSE << <<"BOM" \o lines[1][1]>> \o Tail(lines[1]) >> \o Tail(lines)

\* a decoded text, as its lines (splitlines())
Text(lines) == [t |-> "text", lines |-> lines]

DecodeUtf8(content) ==
    IF ~content.valid_utf8
    THEN Raise("UnicodeDecodeError", <<"'utf-8' codec can't decode byte">>)
    ELSE Text(IF content.bom THEN WithMark(content.lines) ELSE content.lines)

\* csv_content.decode("utf-8-sig"): the text, the byte-order mark removed
DecodeUtf8Sig(content) ==
    IF ~content.valid_utf8
    THEN Raise("UnicodeDecodeError", <<"'utf-8' codec can't decode byte">>)
    ELSE Text(content.lines)

\* one row of csv.DictReader: the cells under the field names, None for the
\* field names a short line leaves without a cell
DictRow(fieldnames, cells) ==
    [k \in { fieldnames[i] : i \in 1 .. Len(fieldnames) } |->
        LET i == CHOOSE j \in 1 .. Len(fieldnames) : fieldnames[j] = k
        IN IF i <= Len(cells) THEN Str(cells[i]) ELSE None]

RECURSIVE DictRows(_, _)
DictRows(fieldnames, lines) ==
    IF lines = <<>> THEN <<>>
    ELSE IF Head(lines) = <<>> THEN DictRows(fieldnames, Tail(lines))
    ELSE <<DictRow(fieldnames, Head(lines))>> \o DictRows(fieldnames, Tail(lines))

\* csv.DictReader(lines): the first line gives the field names, blank lines
\* are skipped
DictReader(lines) ==
    IF lines = <<>> THEN <<>> ELSE DictRows(Head(lines), Tail(lines))

----------------------------------------------------------------------------
\* AzureCloudClient: the blocking poll, the download and the CSV generator

StrOf(v) == IF v.t = "str" THEN v.s ELSE <<"None">>

\* lines 276-286: a status 200 response inside get_ri_csv_url
CsvUrlOn200(body) ==
    LET blob_info == _parse_blob_response(body)
        perr(e)   == Pair(None, Str(<<"Error parsing response: ">> \o e.msg))
    IN IF IsRaise(blob_info) THEN perr(blob_info)
       ELSE IF blob_info.status # Str(<<"Completed">>)
       THEN Pair(None, Str(<<"Report generation not finished, current status: ">>
                           \o StrOf(blob_info.status)))
       ELSE LET blobs == PyGet(blob_info.manifest, "blobs", None)
            IN IF IsRaise(blobs) THEN perr(blobs)
               ELSE IF ~Truthy(blobs)
               THEN Pair(None, Str(<<"No valid CSV download link found in response">>))
               ELSE LET first == Subscript0(blobs)
                        link  == IF IsRaise(first) THEN first
                                 ELSE PyGet(first, "blobLink", None)
                    IN IF IsRaise(link) THEN perr(link) ELSE Pair(link, None)

ExceededRetries(n) ==
    Pair(None, Str(<<"Exceeded maximum retries (", ToString(n),
                     "), CSV download link not yet available">>))

DownloadResultAnyStatus(rsp) ==
    IF IsRaise(rsp)
    THEN Pair(None, Str(<<"Request exception: ">> \o rsp.msg))
    ELSE Pair(rsp.body, None)

\* lines 318-332: the (content, error) of download_ri_csv for its response
DownloadResult(rsp) ==
    IF IsRaise(rsp)
    THEN IF rsp.cls = "RequestException"
         THEN Pair(None, Str(<<"Request exception: ">> \o rsp.msg))
         ELSE Pair(None, Str(<<"Error processing request: ">> \o rsp.msg))
    ELSE IF rsp.status_code = 200
    THEN Pair(rsp.body, None)
    ELSE Pair(None, Str(<<"Failed to download CSV, status code: ",
                          ToString(rsp.status_code)>> \o ErrorDetails(rsp)))

\* what the GET of the blob link can bring: the body of a 200 is the content
DownloadResponses ==
    { Response(200, None, c) : c \in CsvContents }
    \cup { Response(st, None, b) : st \in {403, 500}, b \in {GarbageBody, ErrorJsonBody} }
    \cup NetworkFailures

UrlOps == {"get_ri_csv_url", "get_ri_csv_as_json"}

LoopContinuesOnceMore(count, retries) == count <= retries

\* line 273: "while retry_count < max_retries"
LoopContinues(count, retries) == count < retries

\* get_ri_csv_url hands (csv_url, error) back: to the caller, or to the
\* generator that called it (line 342)
UrlFinish(pair) ==
    IF op' = "get_ri_csv_url"
    THEN pc' = "returned" /\ ret' = pair /\ inner' = None
    ELSE pc' = "url_done" /\ ret' = None /\ inner' = pair

\* lines 265-273
UrlEnter(name) ==
    \E tok \in ArgTokens, target \in LocationUrls, retries \in 0 .. MaxRetries :
        /\ ClientFree
        /\ op' = name
        /\ token' = tok
        /\ url' = target
        /\ max_retries' = retries
        /\ retry_count' = 0
        /\ http' = <<>>
        /\ slept' = 0
        /\ response' = None
        /\ reader' = <<>>
        /\ yielded' = <<>>
        /\ exc' = None
        /\ earlier' = None
        /\ printed' = IF Truthy(UseToken(tok, _current_token))
                      THEN << <<"Using access token: ">>
                                 \o UseToken(tok, _current_token).s >>
                      ELSE <<>>
        /\ UNCHANGED <<_current_token, alibabaVars, pureVars>>
        /\ IF ~Truthy(UseToken(tok, _current_token))
           THEN UrlFinish(Pair(None, NoTokenMessage))
           ELSE IF ~LoopContinues(0, retries)
           THEN UrlFinish(ExceededRetries(retries))
           ELSE pc' = "url_loop" /\ ret' = None /\ inner' = None

CallGetRiCsvUrl == UrlEnter("get_ri_csv_url")

\* line 342: the first next() of the generator enters get_ri_csv_url
CallGetRiCsvAsJson == UrlEnter("get_ri_csv_as_json")

\* lines 273-295: one pass of "while retry_count < max_retries"
GetRiCsvUrlAttempt ==
    /\ op \in UrlOps
    /\ pc = "url_loop"
    /\ \E rsp \in PollResponses :
         /\ http' = Append(http, Request("GET", url,
                                         UseToken(token, _current_token), 20))
         /\ response' = rsp
         /\ UNCHANGED <<op, exc, _current_token, token, url, max_retries, reader,
                        yielded, earlier, printed, alibabaVars, pureVars>>
         /\ IF IsRaise(rsp)
            THEN /\ UNCHANGED <<slept, retry_count>>
                 /\ UrlFinish(
                       IF rsp.cls = "RequestException"
                       THEN Pair(None, Str(<<"Request exception: ">> \o rsp.msg))
                       ELSE Pair(None, Str(<<"Error processing request: ">> \o rsp.msg)))
            ELSE IF rsp.status_code = 200
            THEN /\ UNCHANGED <<slept, retry_count>>
                 /\ UrlFinish(CsvUrlOn200(rsp.body))
            ELSE /\ slept' = slept + POLLING_INTERVAL
                 /\ retry_count' = retry_count + 1
                 /\ IF LoopContinues(retry_count + 1, max_retries)
                    THEN pc' = "url_loop" /\ ret' = None /\ inner' = None
                    ELSE UrlFinish(ExceededRetries(max_retries))

\* lines 314-316
CallDownloadRiCsv ==
    \E tok \in ArgTokens, target \in {BlobLinkX} :
        /\ AzureEnter("download_ri_csv", tok, target, 0)
        /\ IF Truthy(UseToken(tok, _current_token))
           THEN pc' = "get" /\ ret' = None
           ELSE pc' = "returned" /\ ret' = Pair(None, NoTokenMessage)

\* lines 317-332
DownloadRiCsvGet ==
    /\ op = "download_ri_csv"
    /\ pc = "get"
    /\ \E rsp \in DownloadResponses :
         /\ http' = Append(http, Request("GET", url, None, 60))
         /\ response' = rsp
         /\ ret' = DownloadResult(rsp)
         /\ pc' = "returned"
    /\ UNCHANGED <<op, exc, _current_token, token, url, max_retries, retry_count,
                   slept, inner, reader, yielded, earlier, printed, alibabaVars, pureVars>>

Yield(row, error) == [row |-> row, error |-> error]

\* the generator yields its error tuple and ends
YieldError(msg) ==
    /\ yielded' = Append(yielded, Yield(None, Str(msg)))
    /\ reader' = <<>>
    /\ pc' = "returned"

\* lines 343-348: the result of get_ri_csv_url was an error or no url
GetRiCsvAsJsonNoUrl ==
    /\ op = "get_ri_csv_as_json"
    /\ pc = "url_done"
    /\ ~(inner.error = None /\ Truthy(inner.value))
    /\ IF Truthy(inner.error)
       THEN YieldError(<<"Failed to get CSV download URL: ">> \o inner.error.s)
       ELSE YieldError(<<"Unable to obtain a valid CSV download URL">>)
    /\ UNCHANGED <<op, ret, exc, _current_token, token, url, max_retries,
                   retry_count, http, slept, response, inner, earlier, printed, alibabaVars, pureVars>>

\* lines 350-360: download_ri_csv(csv_url, token), then the decoding and the
\* csv.DictReader over the lines
GetRiCsvAsJsonDownload ==
    /\ op = "get_ri_csv_as_json"
    /\ pc = "url_done"
    /\ inner.error = None
    /\ Truthy(inner.value)
    /\ \E rsp \in DownloadResponses :
         LET got   == DownloadResult(rsp)
             text  == DecodeUtf8Sig(got.value)
         IN /\ http' = Append(http, Request("GET", inner.value, None, 60))
            /\ response' = rsp
            /\ IF Truthy(got.error)
               THEN YieldError(<<"Failed to download CSV content: ">> \o got.error.s)
               ELSE IF got.value.lines = <<>> /\ ~got.value.bom
               THEN YieldError(<<"Downloaded CSV content is empty">>)
               ELSE IF IsRaise(text)
               THEN YieldError(<<"CSV decoding failed: ">> \o text.msg)
               ELSE /\ reader' = DictReader(text.lines)
                    /\ pc' = "rows"
                    /\ UNCHANGED yielded
    /\ UNCHANGED <<op, ret, exc, _current_token, token, url, max_retries,
                   retry_count, slept, inner, earlier, printed, alibabaVars, pureVars>>

\* lines 361-366: one turn of "for row in csv_reader": the record is yielded,
\* or the exception of model_validate ends the loop with an error tuple
GetRiCsvAsJsonRow ==
    /\ op = "get_ri_csv_as_json"
    /\ pc = "rows"
    /\ IF reader = <<>>
       THEN pc' = "returned" /\ UNCHANGED <<reader, yielded>>
       ELSE LET record == model_validate(Head(reader))
            IN IF IsRaise(record)
               THEN YieldError(<<"Error converting CSV to records: ">> \o record.msg)
               ELSE /\ yielded' = Append(yielded, Yield(record, None))
                    /\ reader' = Tail(reader)
                    /\ pc' = "rows"
    /\ UNCHANGED <<op, ret, exc, _current_token, token, url, max_retries,
                   retry_count, http, slept, response, inner, earlier, printed, alibabaVars, pureVars>>

NextAzure ==
    \/ CallerNotesPoll
    \/ CallGetAccessToken
    \/ GetAccessTokenPost
    \/ CallGetRiLocation
    \/ GetRiLocationPost
    \/ CallGetRiReport
    \/ GetRiReportGet
    \/ CallCheckRiReportOnce
    \/ CheckRiReportOnceGet
    \/ CallGetRiCsvUrl
    \/ CallGetRiCsvAsJson
    \/ GetRiCsvUrlAttempt
    \/ CallDownloadRiCsv
    \/ DownloadRiCsvGet
    \/ GetRiCsvAsJsonNoUrl
    \/ GetRiCsvAsJsonDownload
    \/ GetRiCsvAsJsonRow

SpecAzure == Init /\ [][NextAzure]_vars

----------------------------------------------------------------------------
\* Claims about reports that do not complete (checked under SpecAzure)

\* the response has status 200 and a body that is not blank and is a JSON
\* object whose status is missing or anything but "Completed"
UnfinishedReport(rsp) ==
    /\ GotStatus(rsp, 200)
    /\ ~BlankText(rsp.body)
    /\ rsp.body.doc # NotJson
    /\ rsp.body.doc.t = "dict"
    /\ DictGet(rsp.body.doc, "status", Absent) # Str(<<"Completed">>)

\* C29: for every status 200 response whose body is a JSON object with a
\* status other than "Completed" (missing, null, "InProgress", "Failed")
\* check_ri_report_once returns pending with no link and no error, whatever
\* the manifest, so no poll of such a report is terminal
C29_UnfinishedReportIsPending ==
    (Polled /\ UnfinishedReport(response)) => ret = Triple("pending", None, None)

\* a poll of a report whose status is "Failed" came back pending
C29_Witness ==
    /\ Polled
    /\ UnfinishedReport(response)
    /\ response.body.doc.d.status = Str(<<"Failed">>)
    /\ ret.status = "pending"

----------------------------------------------------------------------------
\* Claims about calls without a token (checked under SpecAzure)

\* the methods that need a bearer token or return at once
TokenOps == {"get_ri_location", "get_ri_report", "check_ri_report_once",
             "get_ri_csv_url", "download_ri_csv"}

\* neither the token argument nor the cached token holds a token
NoTokenAtAll == ~Truthy(token) /\ ~Truthy(_current_token)

\* C27: called with no explicit token and no cached token, get_ri_location,
\* get_ri_report, check_ri_report_once, get_ri_csv_url and download_ri_csv
\* return their error outcome "No valid access token provided" and issue no
\* HTTP request
C27_NoTokenNoRequest ==
    (op \in TokenOps /\ NoTokenAtAll) =>
        /\ pc = "returned"
        /\ http = <<>>
        /\ slept = 0
        /\ ret.error = Str(<<"No valid access token provided">>)
        /\ IF op = "check_ri_report_once"
           THEN ret.status = "error" /\ ret.csv_url = None
           ELSE ret.value = None

\* get_ri_report returned the error without a request
C27_Witness ==
    /\ op = "get_ri_report"
    /\ NoTokenAtAll
    /\ pc = "returned"
    /\ http = <<>>
    /\ ret = Pair(None, Str(<<"No valid access token provided">>))

----------------------------------------------------------------------------
\* Claims about the loop of get_ri_csv_url (checked under SpecAzure)

\* a call of get_ri_csv_url that had a token to use
UrlCallWithToken == op = "get_ri_csv_url" /\ Truthy(UseToken(token, _current_token))

\* the text the call returned as its error, <<>> when there is none
ReturnedError == IF ret.error = None THEN <<>> ELSE ret.error.s

\* C24: get_ri_csv_url always terminates: it issues at most max_retries GET
\* requests (none when max_retries is 0); every pass of the loop that goes
\* round again has slept POLLING_INTERVAL = 30 seconds and counted one more
\* retry, below max_retries; and a call in which every attempt was counted
\* as a retry returns the "Exceeded maximum retries (max_retries)" error
C24_BoundedRetries ==
    /\ [](UrlCallWithToken =>
            /\ Len(http) <= max_retries
            /\ retry_count <= max_retries
            /\ slept = 30 * retry_count
            /\ pc \in {"url_loop", "returned"}
            /\ pc = "url_loop" => (retry_count < max_retries /\ Len(http) = retry_count)
            /\ (pc = "returned" /\ Len(http) = retry_count) =>
                  /\ retry_count = max_retries
                  /\ ret.value = None
                  /\ ReturnedError = <<"Exceeded maximum retries (", ToString(max_retries),
                                       "), CSV download link not yet available">>)
    /\ [][(UrlCallWithToken /\ pc = "url_loop" /\ pc' = "url_loop") =>
             /\ retry_count' = retry_count + 1
             /\ slept' = slept + 30
             /\ Len(http') = Len(http) + 1]_vars

\* with max_retries at its largest every attempt was answered with a status
\* other than 200 and the call gave up
C24_Witness ==
    /\ UrlCallWithToken
    /\ pc = "returned"
    /\ max_retries = MaxRetries
    /\ Len(http) = MaxRetries
    /\ retry_count = MaxRetries
    /\ slept = 30 * MaxRetries
    /\ Contains(ReturnedError, <<"Exceeded maximum retries (">>)

\* an attempt of get_ri_csv_url: the step issues its GET
UrlAttempt == op = "get_ri_csv_url" /\ pc = "url_loop" /\ Len(http') = Len(http) + 1

\* the body is a JSON object with status "Completed" and a manifest whose
\* blobs is not empty
CompletedWithBlobs(body) ==
    /\ CompletedDoc(body)
    /\ HasKey(body.doc, "manifest")
    /\ HasKey(body.doc.d.manifest, "blobs")
    /\ Truthy(body.doc.d.manifest.d.blobs)

\* C30 as stated: in get_ri_csv_url a status 200 response ends the loop at
\* once, without a sleep: with the blob link and no error when the status is
\* "Completed" and blobs is not empty, with an error and no link otherwise;
\* the call sleeps and goes round again only after a response with another
\* status
C30_OkResponseEndsLoop ==
    [][ UrlAttempt =>
          /\ GotStatus(response', 200) =>
                /\ pc' = "returned"
                /\ slept' = slept
                /\ IF CompletedWithBlobs(response'.body)
                   THEN ret'.value # None /\ ret'.error = None
                   ELSE ret'.value = None /\ ret'.error # None
          /\ (pc' = "url_loop" \/ slept' # slept) =>
                (~IsRaise(response') /\ response'.status_code # 200)
      ]_vars

----------------------------------------------------------------------------
\* Claims about get_ri_csv_as_json (checked under SpecAzure)

\* the generator went as far as a downloaded content
Downloaded ==
    /\ op = "get_ri_csv_as_json"
    /\ pc \in {"rows", "returned"}
    /\ ~Truthy(inner.error)
    /\ Truthy(inner.value)
    /\ ~IsRaise(response)
    /\ response.status_code = 200

\* the data rows of a content: its lines after the header, the blank ones left out
DataLines(content) ==
    IF content.lines = <<>> THEN <<>>
    ELSE SelectSeq(Tail(content.lines), LAMBDA l : l # <<>>)

\* the record a data row stands for under the header of the model
RecordOf(line) == model_validate(DictRow(Columns, line))

Malformed(line) == IsRaise(RecordOf(line))

\* the number of data rows in front of the first malformed one
RECURSIVE GoodPrefix(_)
GoodPrefix(data) ==
    IF data = <<>> \/ Malformed(Head(data)) THEN 0 ELSE 1 + GoodPrefix(Tail(data))

Records(out) == SelectSeq(out, LAMBDA y : y.row # None)

Errors(out) == SelectSeq(out, LAMBDA y : y.error # None)

\* C10 as stated: a malformed data row fails the whole parse, no record of
\* that CSV is delivered; N valid data rows give exactly N records in row order
C10_AllOrNothing ==
    (Downloaded /\ pc = "returned" /\ response.body.valid_utf8) =>
        LET data == DataLines(response.body)
        IN IF \E i \in 1 .. Len(data) : Malformed(data[i])
           THEN Records(yielded) = <<>> /\ Len(Errors(yielded)) = 1
           ELSE yielded = [i \in 1 .. Len(data) |-> Yield(RecordOf(data[i]), None)]

\* C10 amended: the generator stops at the first malformed data row: the rows
\* in front of it are yielded as records in row order, then one error tuple
\* ("Error converting CSV to records: ...") and nothing of the rows behind it;
\* a content that is not UTF-8 gives the one error tuple "CSV decoding failed"
\* and no record; N valid data rows give exactly N records in row order and
\* no error tuple
C10_StopsAtFirstMalformedRow ==
    (Downloaded /\ pc = "returned" /\ response.body # EmptyBytes) =>
        LET data == DataLines(response.body)
            k    == GoodPrefix(data)
        IN IF ~response.body.valid_utf8
           THEN /\ Len(yielded) = 1
                /\ yielded[1].row = None
                /\ Contains(yielded[1].error.s, <<"CSV decoding failed: ">>)
           ELSE /\ Len(yielded) = IF k = Len(data) THEN k ELSE k + 1
                /\ \A i \in 1 .. k : yielded[i] = Yield(RecordOf(data[i]), None)
                /\ k < Len(data) =>
                      /\ yielded[k + 1].row = None
                      /\ Contains(yielded[k + 1].error.s,
                                  <<"Error converting CSV to records: ">>)

\* a record was yielded in front of the error of the second data row
C10_Witness ==
    /\ Downloaded
    /\ pc = "returned"
    /\ response.body.valid_utf8
    /\ response.body.bom
    /\ Len(DataLines(response.body)) = 2
    /\ GoodPrefix(DataLines(response.body)) = 1
    /\ Len(yielded) = 2
    /\ yielded[1].row # None
    /\ yielded[2].row = None

----------------------------------------------------------------------------
\* Claims about the cached token (checked under SpecAzure)

\* the methods that send "Authorization: Bearer <use_token>"
BearerOps == {"get_ri_location", "check_ri_report_once", "get_ri_csv_url"}

\* the token a call with this argument has to use: the argument when one is
\* passed, the cached token otherwise
TokenInForce(tok, cached) ==
    CASE tok # None /\ tok # Str(<<>>) -> tok
      [] OTHER -> cached

\* get_access_token returns from its POST in this step
TokenCallReturns == op = "get_access_token" /\ pc = "post" /\ pc' = "returned"

\* C14: a successful get_access_token caches the token it returns; no other
\* step changes the cache; every request get_ri_location,
\* check_ri_report_once and get_ri_csv_url send carries the explicit token of
\* the call when one was passed and the cached token otherwise, and
\* download_ri_csv goes on to its GET exactly when that token exists
C14_CachedTokenIsUsed ==
    [][ /\ (TokenCallReturns /\ ret'.error = None) =>
              _current_token' = ret'.value /\ _current_token' # None
        /\ ~TokenCallReturns => _current_token' = _current_token
        /\ (op' \in BearerOps /\ Len(http') = Len(http) + 1) =>
              /\ http'[Len(http')].bearer = TokenInForce(token', _current_token)
              /\ http'[Len(http')].bearer # None
        /\ (op' = "download_ri_csv" /\ pc' \in {"get", "returned"} /\ pc # "get") =>
              (pc' = "get" <=> TokenInForce(token', _current_token) \notin {None, Str(<<>>)})
      ]_vars

\* a poll without a token argument has sent the cached token
C14_Witness ==
    /\ op = "check_ri_report_once"
    /\ pc = "returned"
    /\ token = None
    /\ _current_token = Str(<<"T0">>)
    /\ Len(http) = 1
    /\ http[1].bearer = Str(<<"T0">>)

\* the response of the token endpoint is one get_access_token fails on:
\* an exception, a status other than 200, a body that is not JSON or not an
\* object, or no access_token in it
TokenCallFails ==
    \/ IsRaise(response')
    \/ response'.status_code # 200
    \/ response'.body.doc = NotJson
    \/ response'.body.doc.t # "dict"
    \/ ~Truthy(DictGet(response'.body.doc, "access_token", None))

\* C28: a get_access_token that fails returns (None, error) and leaves the
\* cached token as it was, set or empty; and whatever the outcome, exactly
\* one of the token and the error it returns is not None
C28_FailedTokenCallKeepsCache ==
    [][ TokenCallReturns =>
          /\ (ret'.value = None) # (ret'.error = None)
          /\ TokenCallFails =>
                /\ ret'.value = None
                /\ ret'.error # None
                /\ _current_token' = _current_token
      ]_vars

\* a failed call came back while a token of an earlier call was cached
C28_Witness ==
    /\ op = "get_access_token"
    /\ pc = "returned"
    /\ ret.value = None
    /\ ret.error # None
    /\ _current_token = Str(<<"T0">>)

----------------------------------------------------------------------------
\* Claims about download_ri_csv (checked under SpecAzure)

\* download_ri_csv has returned after its GET
DownloadReturned == op = "download_ri_csv" /\ pc = "returned" /\ http # <<>>

\* C15: download_ri_csv returns (the bytes of the response, no error) exactly
\* when the response status is 200; every other status gives (no content,
\* an error naming the status code); a network exception gives (no content,
\* an error with the exception text) and nothing is raised
C15_DownloadOutcome ==
    /\ op = "download_ri_csv" => pc # "raised" /\ exc = None
    /\ DownloadReturned =>
          /\ (ret.error = None) <=> GotStatus(response, 200)
          /\ (ret.value # None) <=> GotStatus(response, 200)
          /\ GotStatus(response, 200) => ret.value = response.body
          /\ (~IsRaise(response) /\ response.status_code # 200) =>
                Contains(ret.error.s, <<ToString(response.status_code)>>)
          /\ IsRaise(response) => Contains(ret.error.s, response.msg)

\* a 403 answered to the download came back as an error naming 403
C15_Witness ==
    /\ DownloadReturned
    /\ GotStatus(response, 403)
    /\ ret.value = None
    /\ Contains(ret.error.s, <<"403">>)

----------------------------------------------------------------------------
\* Claims about upstream failures (checked under SpecAzure)

\* the last response of the call in progress has a status outside 2xx
UpstreamFailure ==
    /\ op \in {"get_access_token", "get_ri_location", "check_ri_report_once",
               "get_ri_csv_url", "download_ri_csv"}
    /\ response.t = "response"
    /\ response.status_code \notin 200 .. 299

\* C17 as stated: every non-2xx response received by get_access_token,
\* get_ri_location, check_ri_report_once, get_ri_csv_url or download_ri_csv
\* ends the call with an error outcome that carries the status code of that
\* response; it is not retried and not replaced by a generic message
C17_UpstreamFailureSurfaced ==
    UpstreamFailure =>
        /\ pc = "returned"
        /\ ret.error # None
        /\ Contains(ret.error.s, <<ToString(response.status_code)>>)

----------------------------------------------------------------------------
\* Claims about what outlives a call (checked under SpecAzure)

\* the bearer tokens the call in progress holds: its argument and the cache
TokensHeld == { tk \in {token, _current_token} : Truthy(tk) }

\* C18 as stated: the client of a request holds its credentials and bearer
\* token in memory only; they are never written to an output that outlives
\* the request: no line written to standard output holds a bearer token
C18_NoTokenInOutput ==
    \A i \in 1 .. Len(printed) : \A tk \in TokensHeld : ~Contains(printed[i], tk.s)

----------------------------------------------------------------------------
\* BillingRecord: parsing a row, dumping the record, parsing the dump

DigitChar(n) ==
    CASE n = 0 -> "0" [] n = 1 -> "1" [] n = 2 -> "2" [] n = 3 -> "3"
      [] n = 4 -> "4" [] n = 5 -> "5" [] n = 6 -> "6" [] n = 7 -> "7"
      [] n = 8 -> "8" [] OTHER -> "9"

\* the decimal digits of n, padded with zeros to the width w
RECURSIVE ZeroPad(_, _)
ZeroPad(n, w) ==
    IF w = 0 THEN <<>> ELSE ZeroPad(n \div 10, w - 1) \o <<DigitChar(n % 10)>>

\* date.isoformat(): YYYY-MM-DD
IsoFormat(d) ==
    ZeroPad(d.year, 4) \o <<"-">> \o ZeroPad(d.month, 2) \o <<"-">> \o ZeroPad(d.day, 2)

\* the value of a field in a dump: as the record holds it (mode "python"),
\* a date as its ISO text (mode "json")
DumpValue(v, mode) ==
    IF v.t = "date" /\ mode = "json" THEN Str(IsoFormat(v)) ELSE v

\* BillingRecord.model_dump(mode=..., by_alias=True): the field values of the
\* record under the names model_validate reads them from
model_dump(record, mode) ==
    [invoiceId              |-> record.invoiceId,
     servicePeriodStartDate |-> DumpValue(record.servicePeriodStartDate, mode),
     date                   |-> DumpValue(record.billing_date, mode),
     chargeType             |-> record.chargeType,
     costInBillingCurrency  |-> record.costInBillingCurrency,
     paygCostInUsd          |-> record.paygCostInUsd,
     tags                   |-> record.tags,
     provider               |-> record.provider]

DumpModes == {"python", "json"}

DateCells ==
    { Date1, Date2, <<>>, <<"1", "3", "/", "0", "1", "/", "2", "0", "2", "5">>,
      <<"2", "0", "2", "5", "-", "1", "2", "-", "3", "1">> }

CostCells == { <<>>, <<"1", ".", "5", "0">>, <<"a", "b", "c">> }

\* the cells of the rows handed to model_validate, in the order of Columns
RecordCells ==
    { << <<"INV1">>, d1, d2, ct, c1, <<"0", ".", "5">>, tg, <<"Azure">> >> :
         d1 \in { Date2, <<>> }, d2 \in DateCells,
         ct \in { <<"Usage">>, <<"Bogus">> }, c1 \in CostCells,
         tg \in { <<>>, <<"k:v">> } }

\* model_validate applied to row: the record is returned, or the exception
\* leaves the call
ModelValidateStep(row) ==
    LET record == model_validate(row)
    IN /\ op' = "model_validate"
       /\ arg' = row
       /\ IF IsRaise(record)
          THEN pc' = "raised" /\ exc' = record /\ ret' = None
          ELSE pc' = "returned" /\ exc' = None /\ ret' = record
       /\ UNCHANGED <<alibabaVars, azureVars>>

\* BillingRecord.model_validate(row) for a row of the CSV reader
CallModelValidate ==
    /\ ClientFree
    /\ \E cells \in RecordCells : ModelValidateStep(DictRow(Columns, cells))

\* record.model_dump(...) of the record model_validate returned
CallModelDump ==
    /\ op = "model_validate"
    /\ pc = "returned"
    /\ \E mode \in DumpModes :
         /\ op' = "model_dump"
         /\ arg' = ret
         /\ ret' = model_dump(ret, mode)
         /\ pc' = "returned"
         /\ exc' = None
    /\ UNCHANGED <<alibabaVars, azureVars>>

\* BillingRecord.model_validate(dump) for the dump just made
CallModelValidateDump ==
    /\ op = "model_dump"
    /\ pc = "returned"
    /\ ModelValidateStep(ret)

NextRecord ==
    \/ CallModelValidate
    \/ CallModelDump
    \/ CallModelValidateDump

SpecRecord == Init /\ [][NextRecord]_vars

\* the step parses the dump of a record again
Reparsed == op = "model_dump" /\ pc = "returned" /\ op' = "model_validate" /\ arg' = ret

\* C16 as stated: a record parsed from a CSV row, dumped to its field values
\* and parsed again has the same value in every field (checked under
\* SpecRecord)
C16_RoundTripIdentity ==
    [][ Reparsed => (pc' = "returned" /\ ret' = arg) ]_vars

----------------------------------------------------------------------------
\* alibaba_cloud/utils.py: parse_aliyun_tag

\* str.replace(old, new): the occurrences of old, left to right, not overlapping
RECURSIVE Replace(_, _, _)
Replace(s, old, new) ==
    IF Len(s) < Len(old) THEN s
    ELSE IF SubSeq(s, 1, Len(old)) = old
    THEN new \o Replace(SubSeq(s, Len(old) + 1, Len(s)), old, new)
    ELSE <<Head(s)>> \o Replace(Tail(s), old, new)

\* str.rstrip(chars)
RECURSIVE RStripChars(_, _)
RStripChars(s, chars) ==
    IF s # <<>> /\ s[Len(s)] \in chars
    THEN RStripChars(SubSeq(s, 1, Len(s) - 1), chars) ELSE s

\* the position of the first occurrence of part in s, 0 when there is none
Find(s, part) ==
    IF Contains(s, part)
    THEN CHOOSE i \in 1 .. Len(s) + 1 :
            /\ i + Len(part) - 1 <= Len(s)
            /\ SubSeq(s, i, i + Len(part) - 1) = part
            /\ \A j \in 1 .. i - 1 : SubSeq(s, j, j + Len(part) - 1) # part
    ELSE 0

\* str.split(sep) for a separator of one or more characters
RECURSIVE SplitStr(_, _)
SplitStr(s, sep) ==
    LET k == Find(s, sep)
    IN IF k = 0 THEN <<s>>
       ELSE <<SubSeq(s, 1, k - 1)>> \o SplitStr(SubSeq(s, k + Len(sep), Len(s)), sep)

\* str.split(sep, 1) when sep occurs in s
SplitOnce(s, sep) ==
    LET k == Find(s, sep)
    IN <<SubSeq(s, 1, k - 1), SubSeq(s, k + Len(sep), Len(s))>>

KeyMark == <<"k", "e", "y", ":">>

ValueMark == <<"v", "a", "l", "u", "e", ":">>

\* {}: a dictionary of texts, as the function from its keys to their values
EmptyDict == [t |-> "dict", d |-> [k \in {} |-> <<>>]]

\* result[key] = value
DictPut(dict, key, value) ==
    [t |-> "dict",
     d |-> [k \in DOMAIN dict.d \cup {key} |-> IF k = key THEN value ELSE dict.d[k]]]

\* utils.py lines 23-28: normalized_tag
Normalize(text) ==
    RStripChars(Replace(Replace(Strip(text), <<";", " ">>, <<";">>),
                        <<";">>, <<";", " ">>),
                {";", " "})

SkipsNoPair(pair) == FALSE

\* utils.py line 32: "if not pair.strip(): continue"
SkipsPair(pair) == Strip(pair) = <<>>

\* utils.py lines 35-48: one pair of the loop: the result with the pair put
\* into it, or the ValueError raised
ParsePair(acc, pair) ==
    LET failed(msg) ==
            ValueError(<<"Failed to parse tag pair '">> \o pair
                       \o <<"'. Original error: ">> \o msg)
    IN IF ~Contains(pair, ValueMark)
       THEN failed(<<"Invalid tag pair format, missing 'value:': ">> \o pair)
       ELSE LET parts == SplitOnce(pair, ValueMark)
                key   == Strip(Replace(parts[1], KeyMark, <<>>))
            IN IF key = <<>>
               THEN failed(<<"Empty key in tag pair: ">> \o pair)
               ELSE DictPut(acc, key, Strip(parts[2]))

RECURSIVE ParsePairsKeepingGood(_, _)
ParsePairsKeepingGood(acc, pairs) ==
    IF pairs = <<>> THEN acc
    ELSE IF SkipsPair(Head(pairs)) THEN ParsePairsKeepingGood(acc, Tail(pairs))
    ELSE LET put == ParsePair(acc, Head(pairs))
         IN ParsePairsKeepingGood(IF IsRaise(put) THEN acc ELSE put, Tail(pairs))

\* utils.py lines 30-50: the loop over the pairs
RECURSIVE ParsePairs(_, _)
ParsePairs(acc, pairs) ==
    IF pairs = <<>> THEN acc
    ELSE IF SkipsPair(Head(pairs)) THEN ParsePairs(acc, Tail(pairs))
    ELSE LET put == ParsePair(acc, Head(pairs))
         IN IF IsRaise(put) THEN put ELSE ParsePairs(put, Tail(pairs))

\* utils.py lines 4-50: the dictionary returned, or the ValueError raised
parse_aliyun_tag(tag) ==
    IF ~Truthy(tag) \/ Strip(tag.s) = <<>> THEN EmptyDict
    ELSE ParsePairs(EmptyDict, SplitStr(Normalize(tag.s), <<";", " ">>))

\* Inputs ------------------------------------------------------------------

MaxBlank == 5

\* every text of at most MaxBlank characters made of ';' and spaces
BlankTags ==
    UNION { [1 .. n -> {";", " "}] : n \in 0 .. MaxBlank }

\* tags that carry no pair
NoPairTags ==
    { None, Str(<<" ", "\t", " ">>), Str(<<"\n">>) } \cup { Str(b) : b \in BlankTags }

\* a pair as it is written: with or without "key:", with or without spaces
\* around the key and the value
TagPairs ==
    [ k : { <<"E">>, <<"e">>, <<"a", "k", "e", "y", ":", "1">> },
      v : { <<"1">>, <<>>, <<"a", ":", "b">> },
      prefix : BOOLEAN, padded : BOOLEAN ]

WritePair(p) ==
    (IF p.prefix THEN KeyMark ELSE <<>>)
    \o (IF p.padded THEN <<" ">> ELSE <<>>) \o p.k \o <<" ">>
    \o ValueMark
    \o (IF p.padded THEN <<" ">> ELSE <<>>) \o p.v

\* the ways two pairs are separated, and the ways a text ends
Separators == { <<";">>, <<";", " ">>, <<" ", " ", ";", " ", " ">>, <<" ", ";">> }

Endings == { <<>>, <<";">>, <<";", " ">> }

MaxPairs == 2

\* the pairs that follow the first one of a tag
FollowingPairs ==
    { [k |-> <<"e">>, v |-> <<"a", ":", "b">>, prefix |-> TRUE, padded |-> FALSE],
      [k |-> <<"E">>, v |-> <<"2">>, prefix |-> TRUE, padded |-> TRUE],
      [k |-> <<"R">>, v |-> <<>>, prefix |-> FALSE, padded |-> FALSE] }

\* the lists of at most MaxPairs pairs
PairLists ==
    UNION { { <<p>> \o rest : p \in TagPairs, rest \in [1 .. n - 1 -> FollowingPairs] } :
            n \in 1 .. MaxPairs }

\* a list of pairs and the layout it is written in
Writings == [ pairs : PairLists, sep : Separators, ending : Endings ]

RECURSIVE Join(_, _)
Join(texts, sep) ==
    IF Len(texts) = 1 THEN texts[1]
    ELSE texts[1] \o sep \o Join(Tail(texts), sep)

WriteTag(w) ==
    Join([i \in 1 .. Len(w.pairs) |-> WritePair(w.pairs[i])], w.sep) \o w.ending

MalformedTags ==
    { Str(KeyMark \o <<"E", " ", "P">>),
      Str(KeyMark \o <<" ">> \o ValueMark \o <<"P">>),
      Str(KeyMark \o <<"E", " ">> \o ValueMark \o <<"1", ";", " ", "x">>) }

\* parse_aliyun_tag(tag): the call returns the dictionary or raises
ParseAliyunTagStep(call) ==
    LET out == parse_aliyun_tag(call.tag)
    IN /\ pc = "idle"
       /\ op' = "parse_aliyun_tag"
       /\ arg' = call
       /\ IF IsRaise(out)
          THEN pc' = "raised" /\ exc' = out /\ ret' = None
          ELSE pc' = "returned" /\ exc' = None /\ ret' = out
       /\ UNCHANGED <<alibabaVars, azureVars>>

\* a call with a tag that carries no pair, or a malformed one
CallParseAliyunTag ==
    \E tag \in NoPairTags \cup MalformedTags :
        ParseAliyunTagStep([tag |-> tag, written |-> None, broken |-> None])

\* a call with a tag written from a list of pairs
CallParseAliyunTagWritten ==
    \E w \in Writings :
        ParseAliyunTagStep([tag |-> Str(WriteTag(w)), written |-> w, broken |-> None])

\* pairs that are not blank and cannot be parsed: no "value:", or no key
BadPairs ==
    { KeyMark \o <<"E", " ", "P">>,
      <<"x", "_", "y">>,
      KeyMark \o <<" ">> \o ValueMark \o <<"P">>,
      ValueMark \o <<"1">> }

\* the lists of fewer than MaxPairs pairs written around a bad pair
PairsAround ==
    UNION { [1 .. n -> FollowingPairs] : n \in 0 .. MaxPairs - 1 }

\* a bad pair, the pairs written before and after it, and the layout
BrokenWritings ==
    [ before : PairsAround, bad : BadPairs, after : PairsAround,
      sep : Separators, ending : Endings ]

WriteBrokenTag(b) ==
    Join([i \in 1 .. Len(b.before) |-> WritePair(b.before[i])] \o <<b.bad>>
         \o [i \in 1 .. Len(b.after) |-> WritePair(b.after[i])], b.sep) \o b.ending

\* a call with a tag in which one pair is bad
CallParseAliyunTagBroken ==
    \E b \in BrokenWritings :
        ParseAliyunTagStep([tag |-> Str(WriteBrokenTag(b)), written |-> None, broken |-> b])

NextTags ==
    \/ CallParseAliyunTag
    \/ CallParseAliyunTagWritten
    \/ CallParseAliyunTagBroken

SpecTags == Init /\ [][NextTags]_vars

----------------------------------------------------------------------------
\* Claims about parse_aliyun_tag (checked under SpecTags)

TagCall == op = "parse_aliyun_tag" /\ pc \in {"returned", "raised"}

\* the text holds ';' and whitespace only
OnlySeparators(text) == \A i \in 1 .. Len(text) : text[i] \in Whitespace \cup {";"}

\* C19: for None, the empty text, a whitespace-only text and a text made only
\* of ';' and spaces parse_aliyun_tag returns the empty dictionary and does
\* not raise
C19_NoPairGivesEmptyDict ==
    (TagCall /\ (arg.tag = None \/ (arg.tag # None /\ OnlySeparators(arg.tag.s)))) =>
        /\ pc = "returned"
        /\ exc = None
        /\ ret.t = "dict"
        /\ DOMAIN ret.d = {}

\* "; ; ;" came back as the empty dictionary
C19_Witness ==
    /\ TagCall
    /\ arg.tag = Str(<<";", " ", ";", " ", ";">>)
    /\ pc = "returned"
    /\ ret = EmptyDict

\* the dictionary a list of pairs stands for: each K to its V, a later pair
\* replacing an earlier one with the same K
RECURSIVE Mapping(_)
Mapping(pairs) ==
    IF pairs = <<>> THEN [k \in {} |-> <<>>]
    ELSE LET last == pairs[Len(pairs)]
             rest == Mapping(SubSeq(pairs, 1, Len(pairs) - 1))
         IN [k \in DOMAIN rest \cup {last.k} |-> IF k = last.k THEN last.v ELSE rest[k]]

\* C20 as stated: a tag written from well-formed pairs 'key:K value:V' (the
\* "key:" optional) comes back as exactly the mapping of each trimmed K to
\* its trimmed V, keys told apart by case, whatever separates the pairs (";",
\* "; ", spaces on both sides of ";") and whether or not a ";" ends the text
C20_WrittenPairsComeBack ==
    (TagCall /\ arg.written # None) =>
        /\ pc = "returned"
        /\ ret.t = "dict"
        /\ ret.d = Mapping(arg.written.pairs)

\* C21: when one pair of the tag that is not blank lacks "value:" or has an
\* empty key, parse_aliyun_tag raises ValueError with that pair in its message
\* and returns no dictionary, whatever well-formed pairs stand before or
\* after it
C21_BadPairRaisesValueError ==
    (TagCall /\ arg.broken # None) =>
        /\ pc = "raised"
        /\ ret = None
        /\ exc.cls = "ValueError"
        /\ Contains(exc.msg, <<"Failed to parse tag pair '">>)
        /\ Contains(exc.msg, arg.broken.bad)

\* a pair without "value:" between two well-formed pairs made the call raise
C21_Witness ==
    /\ TagCall
    /\ arg.broken # None
    /\ Len(arg.broken.before) = 1
    /\ Len(arg.broken.after) = 1
    /\ arg.broken.bad = <<"x", "_", "y">>
    /\ pc = "raised"
    /\ exc.cls = "ValueError"

----------------------------------------------------------------------------
\* kubecost/client.py: KubecostClient

\* ASCII stand-ins for the message prefixes of the client, one per literal
\* f"请求异常: {str(e)}"
RequestFailedText == <<"[request exception]: ">>

\* f"JSON解析失败: {str(e)}"
JsonFailedText == <<"[JSON parse failed]: ">>

\* "响应数据格式错误：缺少data字段"
MissingDataText == <<"[response format error: no data field]">>

\* f"解析分配数据失败: {str(e)}"
ParseFailedText == <<"[allocation parse failed]: ">>

\* f"连接测试失败: {error}"
ConnectionTestFailedText == <<"[connection test failed]: ">>

\* an exception came out of the call instead of a value
Raised(x) == "t" \in DOMAIN x /\ IsRaise(x)

PyBool(b) == [t |-> "bool", b |-> b]

\* a dict given by its items (key, value) in order, keys as texts of characters
DictItems(items) == [t |-> "dict_items", items |-> items]

Number(n) == [t |-> "float", num |-> n]

\* isinstance(v, dict)
IsDict(v) == v.t \in {"dict", "dict_items"}

\* the classes response.json() can raise an instance of for a body that is
\* not JSON: requests' JSONDecodeError is a RequestException in requests >= 2.27
\* and the plain json.JSONDecodeError before
JsonErrorClasses == {"RequestException", "JSONDecodeError"}

_make_request_status_blind(rsp, jsonError) ==
    IF IsRaise(rsp)
    THEN IF rsp.cls = "RequestException"
         THEN Pair(None, Str(RequestFailedText \o rsp.msg))
         ELSE rsp
    ELSE IF rsp.body.doc = NotJson
    THEN Pair(None, Str((IF jsonError = "RequestException"
                         THEN RequestFailedText ELSE JsonFailedText)
                        \o <<"Expecting value">>))
    ELSE Pair(rsp.body.doc, None)

\* kubecost/client.py lines 30-54: (data, error) for what session.get brought;
\* an exception that is not a RequestException leaves the method
_make_request(rsp, jsonError) ==
    IF IsRaise(rsp)
    THEN IF rsp.cls = "RequestException"
         THEN Pair(None, Str(RequestFailedText \o rsp.msg))
         ELSE rsp
    ELSE IF rsp.status_code = 200
    THEN IF rsp.body.doc = NotJson
         THEN Pair(None, Str((IF jsonError = "RequestException"
                              THEN RequestFailedText ELSE JsonFailedText)
                             \o <<"Expecting value">>))
         ELSE Pair(rsp.body.doc, None)
    ELSE Pair(None, Str(<<"HTTP ", ToString(rsp.status_code), ": ">> \o rsp.body.s))

\* the fields of KubecostAllocationData the model keeps
Allocation(cluster, namespace, workload, cost) ==
    [t |-> "KubecostAllocationData", cluster_name |-> cluster,
     namespace |-> namespace, workload_name |-> workload, total_cost |-> cost]

\* a continue statement of the loop
Continue == [t |-> "continue"]

\* lines 100-181 for one (allocation_key, allocation_value): Continue for the
\* continue statements, the exception Decimal raises, or the allocation
AllocationOf(key, value) ==
    IF ~IsDict(value) THEN Continue
    ELSE LET key_parts == SplitStr(key, <<"/">>)
             cost      == PyGet(value, "totalCost", Number(0))
         IN IF Len(key_parts) < 2 THEN Continue
            ELSE IF cost.t # "float"
            THEN Raise("InvalidOperation", <<"[<class 'decimal.ConversionSyntax'>]">>)
            ELSE Allocation(key_parts[1], key_parts[2],
                            IF Len(key_parts) > 2 THEN Str(key_parts[3]) ELSE None,
                            cost.num)

\* lines 96-186: the tuples yielded for the entries still to visit; the
\* except clause turns the first exception into the last tuple
RECURSIVE YieldAllocations(_)
YieldAllocations(entries) ==
    IF entries = <<>> THEN <<>>
    ELSE IF ~IsDict(Head(entries)) \/ Head(entries).items = <<>>
    THEN YieldAllocations(Tail(entries))
    ELSE LET item == Head(entries).items[1]
             rest == <<DictItems(Tail(Head(entries).items))>> \o Tail(entries)
             made == AllocationOf(item.key, item.value)
         IN IF made = Continue THEN YieldAllocations(rest)
            ELSE IF Raised(made)
            THEN <<Yield(None, Str(ParseFailedText \o made.msg))>>
            ELSE <<Yield(made, None)>> \o YieldAllocations(rest)

\* what the generator did: the tuples it yielded and the exception that left
\* it, if any
Generated(tuples, raised) == [t |-> "generated", yielded |-> tuples, raised |-> raised]

\* kubecost/client.py lines 56-186: get_allocation_data for what session.get
\* brought
get_allocation_data(rsp, jsonError) ==
    LET made == _make_request(rsp, jsonError)
    IN IF Raised(made) THEN Generated(<<>>, made)
       ELSE IF Truthy(made.error)
       THEN Generated(<<Yield(None, made.error)>>, None)
       ELSE LET doc == made.value
            IN IF ~Truthy(doc) \/ (doc.t = "dict" /\ DictGet(doc, "data", Absent) = Absent)
               THEN Generated(<<Yield(None, Str(MissingDataText))>>, None)
               ELSE LET entries == doc.d["data"]
                    IN IF entries.t # "list"
                       THEN Generated(<<Yield(None, Str(ParseFailedText
                                \o <<"'", TypeName(entries), "' object is not iterable">>))>>,
                              None)
                       ELSE Generated(YieldAllocations(entries.items), None)

\* kubecost/client.py lines 270-288: test_connection for what session.get brought
test_connection(rsp, jsonError) ==
    LET made == _make_request(rsp, jsonError)
    IN IF Raised(made) THEN made
       ELSE IF Truthy(made.error)
       THEN Pair(PyBool(FALSE), Str(ConnectionTestFailedText \o made.error.s))
       ELSE Pair(PyBool(TRUE), None)

\* Inputs ------------------------------------------------------------------

MaxEntries == 2

AllocationValues ==
    { Str(<<"not a dict">>),
      Dict([totalCost |-> Absent]),
      Dict([totalCost |-> Number(3)]),
      Dict([totalCost |-> Str(<<"abc">>)]) }

AllocationKeys == { <<"c", "1", "/", "n", "s">>, <<"c", "1">>, <<"c", "1", "/", "n", "s", "/", "w">> }

\* the entries of data["data"]: one-item dicts, and a value that is no dict
AllocationEntries ==
    { Str(<<"not a dict">>) }
    \cup { DictItems(<<[key |-> k, value |-> v]>>) : k \in AllocationKeys, v \in AllocationValues }

AllocationDocs ==
    { None, List(<<>>), Dict([error |-> Str(<<"denied">>)]), Dict([data |-> None]) }
    \cup { Dict([data |-> List(es)]) :
              es \in UNION { [1 .. n -> AllocationEntries] : n \in 0 .. MaxEntries } }

KubecostStatuses == {200, 201, 404, 500}

\* what session.get can bring for /model/allocation
KubecostResponses ==
    { Response(st, None, b) :
         st \in KubecostStatuses,
         b \in { TextBody(<<>>), GarbageBody } \cup { JsonBody(doc) : doc \in AllocationDocs } }
    \cup NetworkFailures

\* a call of a KubecostClient method: the result is returned, or the
\* exception leaves the call
KubecostStep(name, call, out) ==
    /\ pc = "idle"
    /\ op' = name
    /\ arg' = call
    /\ IF Raised(out)
       THEN pc' = "raised" /\ exc' = out /\ ret' = None
       ELSE IF "yielded" \in DOMAIN out /\ out.raised # None
       THEN pc' = "raised" /\ exc' = out.raised /\ ret' = out
       ELSE pc' = "returned" /\ exc' = None /\ ret' = out
    /\ UNCHANGED <<alibabaVars, azureVars>>

\* list(client.get_allocation_data(start, end))
CallGetAllocationData ==
    \E rsp \in KubecostResponses, jsonError \in JsonErrorClasses :
        KubecostStep("get_allocation_data", [response |-> rsp, json_error |-> jsonError],
                     get_allocation_data(rsp, jsonError))

\* client.test_connection()
CallTestConnection ==
    \E rsp \in KubecostResponses, jsonError \in JsonErrorClasses :
        KubecostStep("test_connection", [response |-> rsp, json_error |-> jsonError],
                     test_connection(rsp, jsonError))

NextKubecost ==
    \/ CallGetAllocationData
    \/ CallTestConnection

SpecKubecost == Init /\ [][NextKubecost]_vars

----------------------------------------------------------------------------
\* Claims about KubecostClient (checked under SpecKubecost)

KubecostCall(name) == op = name /\ pc \in {"returned", "raised"}

\* session.get brought an HTTP response, not an exception
GotResponse == arg.response.t = "response"

\* C22 as stated: a non-200 response is reported as an error value:
\* get_allocation_data yields exactly one tuple (None, error) with
\* "HTTP <status>" in the error, test_connection returns (False, message
\* prefixed with the connection-test-failed text); and on a 200 response
\* test_connection returns (True, None)
C22_StatusDecidesOutcome ==
    /\ (KubecostCall("get_allocation_data") /\ GotResponse
           /\ arg.response.status_code # 200) =>
          /\ pc = "returned"
          /\ Len(ret.yielded) = 1
          /\ ret.yielded[1].row = None
          /\ Contains(ret.yielded[1].error.s,
                      <<"HTTP ", ToString(arg.response.status_code)>>)
    /\ (KubecostCall("test_connection") /\ GotResponse) =>
          /\ pc = "returned"
          /\ IF arg.response.status_code # 200
             THEN /\ ret.value = PyBool(FALSE)
                  /\ SubSeq(ret.error.s, 1, Len(ConnectionTestFailedText))
                        = ConnectionTestFailedText
             ELSE ret = Pair(PyBool(TRUE), None)

\* C22 amended: as C22, but test_connection returns (True, None) only for a
\* 200 response whose body is JSON; a 200 response whose body is not JSON
\* gives (False, message prefixed with the connection-test-failed text)
C22_StatusAndJsonDecideOutcome ==
    /\ (KubecostCall("get_allocation_data") /\ GotResponse
           /\ arg.response.status_code # 200) =>
          /\ pc = "returned"
          /\ Len(ret.yielded) = 1
          /\ ret.yielded[1].row = None
          /\ Contains(ret.yielded[1].error.s,
                      <<"HTTP ", ToString(arg.response.status_code)>>)
    /\ (KubecostCall("test_connection") /\ GotResponse) =>
          /\ pc = "returned"
          /\ IF arg.response.status_code # 200 \/ arg.response.body.doc = NotJson
             THEN /\ ret.value = PyBool(FALSE)
                  /\ SubSeq(ret.error.s, 1, Len(ConnectionTestFailedText))
                        = ConnectionTestFailedText
             ELSE ret = Pair(PyBool(TRUE), None)

\* test_connection got a 200 response with a body that is not JSON and
\* returned (False, message)
C22_Witness ==
    /\ KubecostCall("test_connection")
    /\ GotResponse
    /\ arg.response.status_code = 200
    /\ arg.response.body.doc = NotJson
    /\ pc = "returned"
    /\ ret.value = PyBool(FALSE)

====
